---- MODULE Spec2Model ----
(***************************************************************************)
(* Model of immich-auto-uploader's processing pipeline.                    *)
(*                                                                         *)
(* FileProcessor (src/src/file_processor.py) owns a FIFO queue, the set of *)
(* dedup keys already handed to the uploader, the statistics counters and  *)
(* a worker thread.  Three kinds of thread act on it:                      *)
(*   - the controller (main thread) calls start() and stop();              *)
(*   - a submitter (watchdog dispatcher / initial scan) calls              *)
(*     process_file();                                                     *)
(*   - every successful start() spawns one worker running _worker_loop.    *)
(* Each thread is a little program counter; one action is one atomic step  *)
(* of the code between two points where another thread can interleave.     *)
(***************************************************************************)
EXTENDS Integers, Sequences, FiniteSets, TLC

(* ------------------------------ bounds -------------------------------- *)
\* how many worker threads can be spawned (successful start() calls)
MaxStarts == 2
\* how many calls of start(), stop() and process_file() are made in all
MaxCalls == 5

(* ------------------------------ values -------------------------------- *)
\* A file name is its stem (a sequence of tokens) and its suffix; the token
\* sequence <<"x", 1>> is the text "x_1", so a file that is really called
\* x_1.jpg and the conflict name made from x.jpg are the same name.
Name(stem, suffix) == [stem |-> stem, suffix |-> suffix]

XJpg == Name(<<"x">>, ".jpg")
X1Jpg == Name(<<"x", 1>>, ".jpg")
X2Jpg == Name(<<"x", 2>>, ".jpg")
XPng == Name(<<"x">>, ".png")

\* FileInfo: path (directory + name), size_bytes and modified_time captured
\* when the record was built.
FileInfo(dir, name, size, mtime) ==
    [dir |-> dir, name |-> name, size_bytes |-> size, modified_time |-> mtime]

\* Python's None: the queue's sentinel and "no current record".
None == FileInfo("None", Name(<<>>, ""), 0, 0)

\* The records the submitter can pass to process_file: one file seen twice
\* with different modification times, and a file of the same name in
\* another watch directory.
FileInfos ==
    { FileInfo("a", XJpg, 1, 1),
      FileInfo("a", XJpg, 1, 2),
      FileInfo("b", XJpg, 1, 1) }

\* The files handed to _archive_file when it is exercised on its own:
\* three files called x.jpg, a file really called x_1.jpg, and an x.png.
ArchiveInputs ==
    { FileInfo("a", XJpg, 1, 1), FileInfo("b", XJpg, 1, 1),
      FileInfo("c", XJpg, 1, 1), FileInfo("a", X1Jpg, 1, 1),
      FileInfo("a", XPng, 1, 1) }

\* The names the archive directory may hold before the first call.
PreArchived == {XJpg, X1Jpg, X2Jpg}

Path(file_info) == <<file_info.dir, file_info.name>>

\* config.get_file_size_limit_bytes(), in the model's size unit
get_file_size_limit_bytes == 2

(* FileProcessor._get_file_key: f"{path}_{size_bytes}_{modified_time}".    *)
(* size and mtime are numbers, so the last two underscores delimit them    *)
(* and the text determines the triple: the key is the triple.              *)
get_file_key(file_info) ==
    <<Path(file_info), file_info.size_bytes, file_info.modified_time>>

Keys == { get_file_key(f) : f \in FileInfos }

VARIABLES
    is_running,        \* FileProcessor.is_running
    processing_queue,  \* FileProcessor.processing_queue (FIFO)
    processed_files,   \* FileProcessor.processed_files (set of keys)
    stats,             \* ProcessingStats counters
    worker_thread,     \* FileProcessor.worker_thread: index of the latest worker, 0 = None
    workers,           \* every worker thread ever spawned: pc, record in hand
    fs,                \* paths that exist as regular files in the watch directories
    archive,           \* names that exist in the archive directory
    uploads,           \* key -> number of upload_asset invocations
    closes,            \* number of immich_client.close() calls
    pings,             \* number of immich_client.test_connection() calls
    ctl,               \* controller thread: where it is inside stop(), or "idle"
    sub,               \* submitter thread: where it is inside process_file(), or "idle"
    call,              \* the calls made so far: how many, and the last one with its input
    seen_keys,         \* keys of the process_file calls made while running (history)
    stop_trace,        \* effects of the current/last stop() call, in order (history)
    client,            \* ImmichClient: the call in progress or last made, its input, config
    session,           \* ImmichClient.session: the transport's state for that call
    result,            \* what that call returned
    processing_files,  \* ImmichFileHandler.processing_files (set of absolute paths)
    handlers,          \* threads inside _handle_file_event: pc and locals
    file,              \* the file a stability check looks at: exists, size, content hash
    check,             \* one _wait_for_file_stability call: pc and locals
    now,               \* time.time(), in check intervals
    observed,          \* what happened during that check (history)
    probe,             \* one evaluation of a function of FileInfo/config: inputs and answer
    scan,              \* FileWatcher._initial_scan: entries left, callbacks made
    stats_lock,        \* ProcessingStats._lock: the thread holding it, 0 = free
    incrementers,      \* threads calling the increment methods: pc and locals
    event_queue,       \* the observer's queue of file events not yet dispatched
    notifier,          \* the Notifier object: its fields
    callers,           \* threads calling the Notifier's methods: pc and locals
    wall,              \* time.time() as the Notifier reads it
    sent               \* the notification threads started so far (history)

\* FileProcessor and the directories it works on
proc_vars == <<is_running, processing_queue, processed_files, stats,
               worker_thread, workers, fs, archive, uploads, closes, pings,
               ctl, sub, call, seen_keys, stop_trace>>
\* ImmichClient
client_vars == <<client, session, result>>
\* ImmichFileHandler._handle_file_event
handler_vars == <<processing_files, handlers>>
\* ImmichFileHandler._wait_for_file_stability
stability_vars == <<file, check, now, observed>>
\* FileInfo.is_valid
valid_vars == <<probe>>
\* FileWatcher._initial_scan
scan_vars == <<scan>>
\* ProcessingStats._lock and the threads incrementing
lock_vars == <<stats_lock, incrementers>>
\* the observer thread's event queue
dispatch_vars == <<event_queue>>
\* Notifier
notify_vars == <<notifier, callers, wall, sent>>

vars == <<proc_vars, client_vars, handler_vars, stability_vars, valid_vars,
          scan_vars, lock_vars, dispatch_vars, notify_vars>>

\* everything outside the FileProcessor
aux_vars == <<client_vars, handler_vars, stability_vars, valid_vars,
              scan_vars, lock_vars, dispatch_vars, notify_vars>>

Workers == 1..MaxStarts

(* ------------------------- ProcessingStats ---------------------------- *)
ProcessingStats ==
    [total_files |-> 0, successful_uploads |-> 0, failed_uploads |-> 0,
     skipped_files |-> 0, archived_files |-> 0]

increment_total(s) == [s EXCEPT !.total_files = @ + 1]
increment_success(s) == [s EXCEPT !.successful_uploads = @ + 1]
increment_failed(s) == [s EXCEPT !.failed_uploads = @ + 1]
increment_skipped(s) == [s EXCEPT !.skipped_files = @ + 1]
increment_archived(s) == [s EXCEPT !.archived_files = @ + 1]

(* ----------------------------- FileInfo ------------------------------- *)
\* FileInfo.is_valid as the processor's records exercise it: the path still
\* exists as a regular file and the captured size is within the limit.
\* (Every path of FileInfos has a supported extension and lies outside the
\* archive directory.)
is_valid(file_info, files) ==
    /\ Path(file_info) \in files
    /\ file_info.size_bytes <= get_file_size_limit_bytes

(* --------------------------- _archive_file ---------------------------- *)
\* f"{base_name}_{counter}{extension}"
ConflictName(name, counter) == Name(Append(name.stem, counter), name.suffix)

\* The while loop of _archive_file: the first counter >= 1 whose name is
\* free.  The archive is finite, so the loop ends within its size + 1.
FirstFreeCounter(name, names) ==
    CHOOSE n \in 1..(Cardinality(names) + 1) :
        /\ ConflictName(name, n) \notin names
        /\ \A m \in 1..(n - 1) : ConflictName(name, m) \in names

\* Faulty variant: the target is never tested for existence.
ArchivePathNoCheck(name, names) == name

\* archive_path as computed by _archive_file before the move
ArchivePath(name, names) ==
    IF name \in names THEN ConflictName(name, FirstFreeCounter(name, names))
    ELSE name

(* ------------------------------ calls --------------------------------- *)
\* The n-th call made on the processor: which method, and its input: the
\* record passed to process_file, or what test_connection answers in start
\* ("yes", "no"; "untested" when test_connection is not called).
Call(n, api, file_info, connected) ==
    [n |-> n, api |-> api, file_info |-> file_info, connected |-> connected]

Answer(connected) == IF connected THEN "yes" ELSE "no"

NoCall == Call(0, "none", None, "untested")

(* ------------------------------- Init --------------------------------- *)
WorkerUnborn == [pc |-> "unborn", file_info |-> None, upload_result |-> "none"]

(* ------------------- ImmichClient: values and session ----------------- *)
\* Retry(total=3, ...)
RetryTotal == 3

\* Retry(..., status_forcelist=[429, 500, 502, 503, 504])
status_forcelist == {429, 500, 502, 503, 504}

\* Retry(...) is built without allowed_methods, so the transport uses the
\* library's default set of methods it may retry after a response or after
\* a broken read; POST is not among them.
allowed_methods == {"HEAD", "GET", "PUT", "DELETE", "OPTIONS", "TRACE"}

\* Status codes a server answers with (404 stands for "any other").
Statuses == {200, 201, 400, 401, 404, 409, 429, 500, 502, 503, 504}

\* What response.json() finds in the body: a JSON object with or without
\* the key 'id', JSON that is not an object (a list, a string, null), or
\* text that is not JSON.
Bodies == {"object with id", "object without id", "not an object", "not JSON"}

\* One attempt on the wire ends with a response, with a failure to connect,
\* or with a broken/timed-out read after the request was sent.
Outcome(kind, status, body) == [kind |-> kind, status |-> status, body |-> body]

NoOutcome == Outcome("none", 0, "")

Outcomes ==
    { Outcome("response", st, b) : st \in Statuses, b \in Bodies }
    \cup { Outcome("connect error", 0, ""), Outcome("read error", 0, "") }

\* What upload_asset looks at besides the response: is_valid(config), the
\* extension being a video one, the answer of _validate_video_file, and
\* open(path, 'rb') succeeding.
UploadInput(valid, video, video_ok, readable) ==
    [valid |-> valid, video |-> video, video_ok |-> video_ok,
     readable |-> readable]

UploadInputs ==
    { UploadInput(v, vid, ok, r) : v \in BOOLEAN, vid \in BOOLEAN,
                                   ok \in BOOLEAN, r \in BOOLEAN }

NoInput == UploadInput(TRUE, FALSE, TRUE, TRUE)

\* ImmichClient between calls; verify_video_integrity is fixed by the
\* configuration.
Client(pc, api, input, verify_video_integrity) ==
    [pc |-> pc, api |-> api, input |-> input,
     verify_video_integrity |-> verify_video_integrity]

\* The session at the start of a call: nothing sent yet, Retry untouched.
Session(method) ==
    [method |-> method, post_calls |-> 0, get_calls |-> 0, attempts |-> 0,
     total |-> RetryTotal, outcome |-> NoOutcome, raised |-> "none"]

\* A result message: its fixed text, the status code it quotes (0: none)
\* and the error text it quotes ("": none).
Message(text, status, error) ==
    [text |-> text, status |-> status, error |-> error]

\* ImmichUploadResult(success, message, asset_id); `raised` is the
\* exception that left the call instead of a result ("none": it returned).
ImmichUploadResult(api, success, message, asset_id) ==
    [api |-> api, success |-> success, message |-> message,
     asset_id |-> asset_id, raised |-> "none"]

NoResult == ImmichUploadResult("none", FALSE, Message("", 0, ""), "None")

InitClientIdle ==
    /\ client = Client("idle", "none", NoInput, TRUE)
    /\ session = Session("none")
    /\ result = NoResult

(* --------------------- ImmichFileHandler: values ---------------------- *)
\* Threads that deliver file system events to the handler
MaxHandlers == 2

Handlers == 1..MaxHandlers

\* os.path.abspath(file_path) of the events delivered
Paths == {"/watch/a.jpg", "/watch/b.jpg"}

\* One thread's position in _handle_file_event and what it has seen so far
\* for its current (or, when idle, last) event: the answer of
\* _wait_for_file_stability ("true", "false", "raise"), of is_valid ("yes",
\* "no"), how often it invoked on_file_ready, and how the event ended.
Handler(pc, file_path, stable, valid, ready, exit) ==
    [pc |-> pc, file_path |-> file_path, stable |-> stable, valid |-> valid,
     ready |-> ready, exit |-> exit]

HandlerIdle == Handler("idle", "none", "none", "none", 0, "none")

\* ImmichFileHandler.__init__: empty set, no event being handled.
InitHandlerIdle ==
    /\ processing_files = {}
    /\ handlers = [t \in Handlers |-> HandlerIdle]

(* ----------------- _wait_for_file_stability: values ------------------- *)
\* Latest time.time() a check is followed to, in check intervals
MaxClock == 5

\* Sizes are counted in MiB and times in check intervals
\* (file_stability_check_interval).  The hash is compared above 10 MiB.
HashThresholdMiB == 10

\* Config.min_stability_wait_size_mb, file_stability_wait_seconds and
\* file_stability_wait_seconds_video (video >= base, as _validate_config
\* demands)
min_stability_wait_size_mb == 12

file_stability_wait_seconds == 2

file_stability_wait_seconds_video == 3

\* File sizes: below the hash threshold, above it, and large enough for the
\* extended wait
Sizes == {5, 11, 12}

\* Digests _get_file_hash can return for readable content
Hashes == {"h1", "h2"}

File(exists, size, hash, readable) ==
    [exists |-> exists, size |-> size, hash |-> hash, readable |-> readable]

\* stable_start_time = None
NoTime == -1

\* The locals of _wait_for_file_stability, and what it returned ("none"
\* while it has not).
Check(pc, last_size, last_hash, stable_start_time, current_size, res) ==
    [pc |-> pc, last_size |-> last_size, last_hash |-> last_hash,
     stable_start_time |-> stable_start_time, current_size |-> current_size,
     result |-> res]

CheckIdle == Check("idle", 0, "None", NoTime, 0, "none")

\* What the file looked like to a poll: its size and, above the threshold,
\* its hash.
Observation(size, hash) ==
    <<size, IF size > HashThresholdMiB THEN hash ELSE "unhashed">>

\* History of one check: whether the file existed when it started, where
\* the check was when the file was deleted ("never": it was not), the
\* previous observation, the time
\* of the first poll of the current run of polls that observed no change
\* (NoTime: the last poll observed a change), whether any poll observed a
\* change, whether a poll's _get_file_hash call returned None, and the
\* statement that returned.
Observed(existed, deleted_at, last, unchanged_since, changed_seen, hash_failed, by) ==
    [existed |-> existed, deleted_at |-> deleted_at, last |-> last,
     unchanged_since |-> unchanged_since, changed_seen |-> changed_seen,
     hash_failed |-> hash_failed, by |-> by]

NothingObserved ==
    Observed(FALSE, "never", <<0, "unhashed">>, NoTime, FALSE, FALSE, "none")

InitStabilityIdle ==
    /\ file = File(TRUE, 5, "h1", TRUE)
    /\ check = CheckIdle
    /\ now = 0
    /\ observed = NothingObserved

(* ---------------------- FileInfo.is_valid: values --------------------- *)
\* A file name as its parts between the dots: <<"x", "JPG">> is "x.JPG",
\* <<"x">> is "x", <<"", "jpg">> is ".jpg", <<"x", "">> is "x.".
FileNames ==
    { <<"x", "jpg">>, <<"x", "JPG">>, <<"x", "Jpg">>, <<"x", "txt">>,
      <<"x">>, <<"", "jpg">>, <<"x", "">>, <<"x", "tar", "png">> }

\* str.lower() on the parts that occur
Lower(part) ==
    IF part \in {"jpg", "JPG", "Jpg"} THEN "jpg"
    ELSE IF part \in {"png", "PNG"} THEN "png"
    ELSE part

\* Config.supported_extensions: the default list, and lists given in
\* SUPPORTED_EXTENSIONS, which _get_list_env splits and strips.
ExtensionLists == { {"jpg", "png"}, {"JPG", "PNG"}, {"png"} }

\* Config.max_file_size_mb
max_file_size_mb == 1

\* Resolved paths, as tuples of components: the resolved archive directory,
\* and where a file's path may resolve to.
archive_directory_resolved == <<"archive">>

ResolvedPaths ==
    { <<"watch", "f">>, <<"archive">>, <<"archive", "f">>,
      <<"archive", "sub", "f">>, <<"watch", "archive", "f">> }

\* What is at the path: nothing, a directory, or a regular file
Kinds == {"missing", "directory", "file"}

\* A FileInfo with what is_valid reads: what is at the path now, the
\* captured size, the name, where the path resolves to, and the configured
\* extension list.
ValidInput(kind, size_bytes, name, resolved, supported_extensions) ==
    [kind |-> kind, size_bytes |-> size_bytes, name |-> name,
     resolved |-> resolved, supported_extensions |-> supported_extensions]

ValidInputs ==
    { ValidInput(k, sz, n, r, e) :
        k \in Kinds,
        sz \in {0, max_file_size_mb * 1024 * 1024,
                max_file_size_mb * 1024 * 1024 + 1},
        n \in FileNames, r \in ResolvedPaths, e \in ExtensionLists }

Probe(input, answer) == [input |-> input, answer |-> answer]

InitValidIdle ==
    probe = Probe(ValidInput("file", 0, <<"x", "jpg">>, <<"watch", "f">>,
                             {"jpg", "png"}), "none")

(* ------------- initial scan, stats lock, event queue: values ---------- *)
\* FileWatcher._initial_scan: whether it has run, Config.watch_recursive,
\* the directory entries iterdir() has still to yield (outermost directory
\* last), the entries is_valid was asked about, and the records handed to
\* on_file_ready.
Scan(pc, recursive, todo, enumerated, ready) ==
    [pc |-> pc, recursive |-> recursive, todo |-> todo,
     enumerated |-> enumerated, ready |-> ready]

ScanIdle == Scan("idle", TRUE, <<>>, <<>>, <<>>)

\* Threads that call the increment methods of one ProcessingStats
MaxIncrementers == 2

Incrementers == 1..MaxIncrementers

\* The counters, by the name of their field
Counters ==
    {"total_files", "successful_uploads", "failed_uploads", "skipped_files",
     "archived_files"}

\* Counters the bounded threads increment
Incremented == {"total_files", "failed_uploads"}

\* One thread inside increment_<counter>: where it is, the value it read,
\* and how many calls it has completed per counter.
Incrementer(pc, counter, read, done) ==
    [pc |-> pc, counter |-> counter, read |-> read, done |-> done]

IncrementerIdle ==
    Incrementer("idle", "none", 0, [c \in Incremented |-> 0])

\* threads that call the Notifier: the worker through the upload callback,
\* the main thread at shutdown
MaxNotifiers == 2

NotifierThreads == 1..MaxNotifiers

\* Notifier fields after __init__: enabled and _notification_available as
\* _test_notification_capability left them, upload_count 0,
\* last_notification_time the time of construction, _lock free (0),
\* _upload_session_started False.
Notifier(enabled, notification_available, batch_timeout) ==
    [enabled |-> enabled, notification_available |-> notification_available,
     batch_timeout |-> batch_timeout, upload_count |-> 0,
     last_notification_time |-> 0, lock |-> 0,
     upload_session_started |-> FALSE]

\* a calling thread: the method it is in, the statement it is at, and the
\* value of upload_count it has read for `+= 1`
Caller(pc, api, read) == [pc |-> pc, api |-> api, read |-> read]

\* history: start notifications started, counts of the batch notifications
\* started, the time of the last of them (NoTime: none yet), and the
\* notify_upload_success calls that went past the enabled test, and the
\* calls of any method
Sent(started, batches, last_batch_at, successes, calls) ==
    [started |-> started, batches |-> batches, last_batch_at |-> last_batch_at,
     successes |-> successes, calls |-> calls]

InitNotifierIdle ==
    /\ notifier = Notifier(FALSE, FALSE, 1)
    /\ callers = [t \in NotifierThreads |-> Caller("idle", "none", 0)]
    /\ wall = 0
    /\ sent = Sent(0, <<>>, NoTime, 0, 0)

InitScanIdle == scan = ScanIdle

InitLockIdle ==
    /\ stats_lock = 0
    /\ incrementers = [t \in Incrementers |-> IncrementerIdle]

InitDispatchIdle == event_queue = <<>>

\* The parts introduced last, at rest
InitRestIdle ==
    /\ InitScanIdle
    /\ InitLockIdle
    /\ InitDispatchIdle
    /\ InitNotifierIdle

\* FileProcessor.__init__: nothing running, empty queue and dedup set, zero
\* counters.  In Init every file of FileInfos is present in its watch
\* directory and the archive directory is empty.
InitProcessor ==
    /\ is_running = FALSE
    /\ processing_queue = <<>>
    /\ processed_files = {}
    /\ stats = ProcessingStats
    /\ worker_thread = 0
    /\ workers = [w \in Workers |-> WorkerUnborn]
    /\ uploads = [k \in Keys |-> 0]
    /\ closes = 0
    /\ pings = 0
    /\ ctl = "idle"
    /\ sub = "idle"
    /\ call = NoCall
    /\ seen_keys = {}
    /\ stop_trace = <<>>

Init ==
    /\ InitProcessor
    /\ fs = { Path(f) : f \in FileInfos }
    /\ archive = {}
    /\ InitClientIdle
    /\ InitHandlerIdle
    /\ InitRestIdle
    /\ InitStabilityIdle
    /\ InitValidIdle

(* ------------------------- FileProcessor.start ------------------------ *)
\* A new thread running _worker_loop, stored in self.worker_thread.
Spawn == [workers EXCEPT ![worker_thread + 1].pc = "loop"]

\* start() with test_connection() answering `connected`.  The controller is
\* the only thread that writes is_running and worker_thread, and the new
\* thread's first step is its own action, so the call is one step.
\* Faulty variant: start() without the is_running guard and without
\* looking at the answer of test_connection().
StartNotIdempotent(connected) ==
    /\ ctl = "idle"
    /\ call.n < MaxCalls
    /\ worker_thread < MaxStarts
    /\ pings' = pings + 1
    /\ call' = Call(call.n + 1, "start", None, Answer(connected))
    /\ is_running' = TRUE
    /\ worker_thread' = worker_thread + 1
    /\ workers' = Spawn
    /\ UNCHANGED <<processing_queue, processed_files, stats, fs, archive,
                   uploads, closes, ctl, sub, seen_keys, stop_trace>>
    /\ UNCHANGED aux_vars

Start(connected) ==
    /\ ctl = "idle"
    /\ call.n < MaxCalls
    /\ worker_thread < MaxStarts
    /\ IF is_running
       THEN \* already running: return
            /\ call' = Call(call.n + 1, "start", None, "untested")
            /\ UNCHANGED <<is_running, worker_thread, workers, pings>>
       ELSE IF ~connected
       THEN \* raise RuntimeError("Cannot connect to Immich server")
            /\ pings' = pings + 1
            /\ call' = Call(call.n + 1, "start", None, Answer(connected))
            /\ UNCHANGED <<is_running, worker_thread, workers>>
       ELSE /\ pings' = pings + 1
            /\ call' = Call(call.n + 1, "start", None, Answer(connected))
            /\ is_running' = TRUE
            /\ worker_thread' = worker_thread + 1
            /\ workers' = Spawn
    /\ UNCHANGED <<processing_queue, processed_files, stats, fs, archive,
                   uploads, closes, ctl, sub, seen_keys, stop_trace>>
    /\ UNCHANGED aux_vars

(* ------------------------- FileProcessor.stop ------------------------- *)
\* Faulty variant: stop() without the is_running guard.
StopCallUnguarded ==
    /\ ctl = "idle"
    /\ call.n < MaxCalls
    /\ call' = Call(call.n + 1, "stop", None, "untested")
    /\ is_running' = FALSE
    /\ ctl' = "put"
    /\ stop_trace' = <<"is_running=False">>
    /\ UNCHANGED <<processing_queue, processed_files, stats, worker_thread,
                   workers, fs, archive, uploads, closes, pings, sub,
                   seen_keys>>
    /\ UNCHANGED aux_vars

\* stop(), first step: return if not running, else is_running = False.
StopCall ==
    /\ ctl = "idle"
    /\ call.n < MaxCalls
    /\ call' = Call(call.n + 1, "stop", None, "untested")
    /\ IF ~is_running
       THEN UNCHANGED <<is_running, ctl, stop_trace>>
       ELSE /\ is_running' = FALSE
            /\ ctl' = "put"
            /\ stop_trace' = <<"is_running=False">>
    /\ UNCHANGED <<processing_queue, processed_files, stats, worker_thread,
                   workers, fs, archive, uploads, closes, pings, sub,
                   seen_keys>>
    /\ UNCHANGED aux_vars

\* self.processing_queue.put(None)
StopPut ==
    /\ ctl = "put"
    /\ processing_queue' = Append(processing_queue, None)
    /\ ctl' = "join"
    /\ stop_trace' = Append(stop_trace, "put(None)")
    /\ UNCHANGED <<is_running, processed_files, stats, worker_thread, workers,
                   fs, archive, uploads, closes, pings, sub, call, seen_keys>>
    /\ UNCHANGED aux_vars

\* The steps of a worker that can outlast join's 5 seconds: the HTTP upload
\* (timeout=60, with retries) and the move into the archive.
Blocking(w) == workers[w].pc \in {"upload", "archive"}

\* self.worker_thread.join(timeout=5): returns when the worker has exited,
\* or after the timeout while the worker is still inside a blocking step.
StopJoin ==
    /\ ctl = "join"
    /\ \/ workers[worker_thread].pc = "exited"
       \/ Blocking(worker_thread)
    /\ ctl' = "close"
    /\ stop_trace' = Append(stop_trace, "join")
    /\ UNCHANGED <<is_running, processing_queue, processed_files, stats,
                   worker_thread, workers, fs, archive, uploads, closes, pings,
                   sub, call, seen_keys>>
    /\ UNCHANGED aux_vars

\* self.immich_client.close()
StopClose ==
    /\ ctl = "close"
    /\ closes' = closes + 1
    /\ ctl' = "log"
    /\ stop_trace' = Append(stop_trace, "close")
    /\ UNCHANGED <<is_running, processing_queue, processed_files, stats,
                   worker_thread, workers, fs, archive, uploads, pings, sub,
                   call, seen_keys>>
    /\ UNCHANGED aux_vars

\* logger.info(self.stats.get_summary()); return
StopLog ==
    /\ ctl = "log"
    /\ ctl' = "idle"
    /\ stop_trace' = Append(stop_trace, "summary")
    /\ UNCHANGED <<is_running, processing_queue, processed_files, stats,
                   worker_thread, workers, fs, archive, uploads, closes, pings,
                   sub, call, seen_keys>>
    /\ UNCHANGED aux_vars

(* ---------------------- FileProcessor.process_file -------------------- *)
\* process_file(file_info) up to and including the put: the is_running
\* test, the processed_files test, then skip or enqueue.
\* Faulty variant: process_file() that enqueues whatever is_running is.
ProcessFileNoRunningTest(file_info) ==
    /\ sub = "idle"
    /\ call.n < MaxCalls
    /\ call' = Call(call.n + 1, "process_file", file_info, "untested")
    /\ seen_keys' = seen_keys \cup {get_file_key(file_info)}
    /\ processing_queue' = Append(processing_queue, file_info)
    /\ sub' = "increment_total"
    /\ UNCHANGED <<is_running, processed_files, stats, worker_thread, workers,
                   fs, archive, uploads, closes, pings, ctl, stop_trace>>
    /\ UNCHANGED aux_vars

\* Faulty variant: process_file without the processed_files test.
ProcessFileNoDedup(file_info) ==
    /\ sub = "idle"
    /\ call.n < MaxCalls
    /\ call' = Call(call.n + 1, "process_file", file_info, "untested")
    /\ seen_keys' = IF is_running THEN seen_keys \cup {get_file_key(file_info)}
                    ELSE seen_keys
    /\ IF ~is_running
       THEN UNCHANGED <<processing_queue, stats, sub>>
       ELSE /\ processing_queue' = Append(processing_queue, file_info)
            /\ sub' = "increment_total"
            /\ UNCHANGED stats
    /\ UNCHANGED <<is_running, processed_files, worker_thread, workers, fs,
                   archive, uploads, closes, pings, ctl, stop_trace>>
    /\ UNCHANGED aux_vars

ProcessFile(file_info) ==
    /\ sub = "idle"
    /\ call.n < MaxCalls
    /\ call' = Call(call.n + 1, "process_file", file_info, "untested")
    /\ seen_keys' = IF is_running THEN seen_keys \cup {get_file_key(file_info)}
                    ELSE seen_keys
    /\ IF ~is_running
       THEN \* "File processor is not running, ignoring file"
            UNCHANGED <<processing_queue, stats, sub>>
       ELSE IF get_file_key(file_info) \in processed_files
       THEN /\ stats' = increment_skipped(stats)
            /\ UNCHANGED <<processing_queue, sub>>
       ELSE /\ processing_queue' = Append(processing_queue, file_info)
            /\ sub' = "increment_total"
            /\ UNCHANGED stats
    /\ UNCHANGED <<is_running, processed_files, worker_thread, workers, fs,
                   archive, uploads, closes, pings, ctl, stop_trace>>
    /\ UNCHANGED aux_vars

\* process_file after the put: self.stats.increment_total(); return
ProcessFileTotal ==
    /\ sub = "increment_total"
    /\ stats' = increment_total(stats)
    /\ sub' = "idle"
    /\ UNCHANGED <<is_running, processing_queue, processed_files,
                   worker_thread, workers, fs, archive, uploads, closes, pings,
                   ctl, call, seen_keys, stop_trace>>
    /\ UNCHANGED aux_vars

(* ---------------------- FileProcessor._worker_loop -------------------- *)
\* Faulty variant: the loop condition is not tested, the worker always goes
\* on to the next get.
WorkerLoopIgnoresStop(w) ==
    /\ workers[w].pc = "loop"
    /\ workers' = [workers EXCEPT ![w].pc = "get"]
    /\ UNCHANGED <<is_running, processing_queue, processed_files, stats,
                   worker_thread, fs, archive, uploads, closes, pings, ctl,
                   sub, call, seen_keys, stop_trace>>
    /\ UNCHANGED aux_vars

\* while self.is_running:
WorkerLoop(w) ==
    /\ workers[w].pc = "loop"
    /\ workers' = [workers EXCEPT ![w].pc = IF is_running THEN "get" ELSE "exited"]
    /\ UNCHANGED <<is_running, processing_queue, processed_files, stats,
                   worker_thread, fs, archive, uploads, closes, pings, ctl,
                   sub, call, seen_keys, stop_trace>>
    /\ UNCHANGED aux_vars

\* file_info = self.processing_queue.get(timeout=1): Empty -> continue;
\* None -> break; otherwise on to _process_single_file.
WorkerGet(w) ==
    /\ workers[w].pc = "get"
    /\ IF processing_queue = <<>>
       THEN /\ workers' = [workers EXCEPT ![w].pc = "loop"]
            /\ UNCHANGED processing_queue
       ELSE /\ processing_queue' = Tail(processing_queue)
            /\ workers' =
                 IF Head(processing_queue) = None
                 THEN [workers EXCEPT ![w].pc = "exited"]
                 ELSE [workers EXCEPT ![w].pc = "validate",
                                      ![w].file_info = Head(processing_queue)]
    /\ UNCHANGED <<is_running, processed_files, stats, worker_thread, fs,
                   archive, uploads, closes, pings, ctl, sub, call, seen_keys,
                   stop_trace>>
    /\ UNCHANGED aux_vars

(* -------------------- FileProcessor._process_single_file -------------- *)
\* back at the top of the loop with no record in hand
WorkerDone(w) ==
    [workers EXCEPT ![w] = [pc |-> "loop", file_info |-> None,
                            upload_result |-> "none"]]

\* Faulty variant: the dedup key is not added before upload_asset is called.
ProcessSingleFileKeyNotMarked(w) ==
    /\ workers[w].pc = "validate"
    /\ LET file_info == workers[w].file_info
           file_key == get_file_key(file_info) IN
       IF ~is_valid(file_info, fs)
       THEN /\ stats' = increment_skipped(stats)
            /\ workers' = WorkerDone(w)
            /\ UNCHANGED <<processed_files, uploads>>
       ELSE /\ processed_files' = processed_files
            /\ uploads' = [uploads EXCEPT ![file_key] = @ + 1]
            /\ workers' = [workers EXCEPT ![w].pc = "upload"]
            /\ UNCHANGED stats
    /\ UNCHANGED <<is_running, processing_queue, worker_thread, fs, archive,
                   closes, pings, ctl, sub, call, seen_keys, stop_trace>>
    /\ UNCHANGED aux_vars

\* Faulty variant: the dedup key is added before the validity test.
ProcessSingleFileMarksInvalid(w) ==
    /\ workers[w].pc = "validate"
    /\ LET file_info == workers[w].file_info
           file_key == get_file_key(file_info) IN
       /\ processed_files' = processed_files \cup {file_key}
       /\ IF ~is_valid(file_info, fs)
          THEN /\ stats' = increment_skipped(stats)
               /\ workers' = WorkerDone(w)
               /\ UNCHANGED uploads
          ELSE /\ uploads' = [uploads EXCEPT ![file_key] = @ + 1]
               /\ workers' = [workers EXCEPT ![w].pc = "upload"]
               /\ UNCHANGED stats
    /\ UNCHANGED <<is_running, processing_queue, worker_thread, fs, archive,
                   closes, pings, ctl, sub, call, seen_keys, stop_trace>>
    /\ UNCHANGED aux_vars

\* is_valid test; if valid, the key is added and upload_asset is called.
ProcessSingleFile(w) ==
    /\ workers[w].pc = "validate"
    /\ LET file_info == workers[w].file_info
           file_key == get_file_key(file_info) IN
       IF ~is_valid(file_info, fs)
       THEN /\ stats' = increment_skipped(stats)
            /\ workers' = WorkerDone(w)
            /\ UNCHANGED <<processed_files, uploads>>
       ELSE /\ processed_files' = processed_files \cup {file_key}
            /\ uploads' = [uploads EXCEPT ![file_key] = @ + 1]
            /\ workers' = [workers EXCEPT ![w].pc = "upload"]
            /\ UNCHANGED stats
    /\ UNCHANGED <<is_running, processing_queue, worker_thread, fs, archive,
                   closes, pings, ctl, sub, call, seen_keys, stop_trace>>
    /\ UNCHANGED aux_vars

\* How the worker's upload_asset call can end: a success result, a failure
\* result, or ("raise") an exception at the call, which lands in the except
\* clause of _process_single_file.  upload_asset re-validates the record,
\* so it cannot succeed for a record that is not valid.
UploadOutcomes(file_info, files) ==
    IF is_valid(file_info, files) THEN {"success", "failure", "raise"}
    ELSE {"failure", "raise"}

\* Faulty variant: _archive_file is called whatever the upload result.
UploadReturnArchivesAlways(w, outcome) ==
    /\ workers[w].pc = "upload"
    /\ outcome \in UploadOutcomes(workers[w].file_info, fs)
    /\ stats' = IF outcome = "success" THEN increment_success(stats)
                ELSE increment_failed(stats)
    /\ workers' = [workers EXCEPT ![w].pc = "archive",
                                  ![w].upload_result = outcome]
    /\ UNCHANGED <<is_running, processing_queue, processed_files,
                   worker_thread, fs, archive, uploads, closes, pings, ctl,
                   sub, call, seen_keys, stop_trace>>
    /\ UNCHANGED aux_vars

\* Faulty variant: an exception at the upload call is not caught: it is
\* not counted and the worker thread ends.
UploadReturnRaiseEscapes(w, outcome) ==
    /\ workers[w].pc = "upload"
    /\ outcome \in UploadOutcomes(workers[w].file_info, fs)
    /\ IF outcome = "success"
       THEN /\ stats' = increment_success(stats)
            /\ workers' = [workers EXCEPT ![w].pc = "archive",
                                          ![w].upload_result = "success"]
       ELSE IF outcome = "failure"
       THEN /\ stats' = increment_failed(stats)
            /\ workers' = WorkerDone(w)
       ELSE /\ stats' = stats
            /\ workers' = [workers EXCEPT ![w].pc = "exited"]
    /\ UNCHANGED <<is_running, processing_queue, processed_files,
                   worker_thread, fs, archive, uploads, closes, pings, ctl,
                   sub, call, seen_keys, stop_trace>>
    /\ UNCHANGED aux_vars

\* Faulty variant: a worker that finds is_running false when upload_asset
\* returns drops the record uncounted and ends.
UploadReturnCutByStop(w, outcome) ==
    /\ workers[w].pc = "upload"
    /\ outcome \in UploadOutcomes(workers[w].file_info, fs)
    /\ IF ~is_running
       THEN /\ stats' = stats
            /\ workers' = [workers EXCEPT ![w].pc = "exited"]
       ELSE IF outcome = "success"
       THEN /\ stats' = increment_success(stats)
            /\ workers' = [workers EXCEPT ![w].pc = "archive",
                                          ![w].upload_result = "success"]
       ELSE /\ stats' = increment_failed(stats)
            /\ workers' = WorkerDone(w)
    /\ UNCHANGED <<is_running, processing_queue, processed_files,
                   worker_thread, fs, archive, uploads, closes, pings, ctl,
                   sub, call, seen_keys, stop_trace>>
    /\ UNCHANGED aux_vars

\* upload_asset returns (or raises): count the result; on success go on to
\* _archive_file.
UploadReturn(w, outcome) ==
    /\ workers[w].pc = "upload"
    /\ outcome \in UploadOutcomes(workers[w].file_info, fs)
    /\ IF outcome = "success"
       THEN /\ stats' = increment_success(stats)
            /\ workers' = [workers EXCEPT ![w].pc = "archive",
                                          ![w].upload_result = "success"]
       ELSE /\ stats' = increment_failed(stats)
            /\ workers' = WorkerDone(w)
    /\ UNCHANGED <<is_running, processing_queue, processed_files,
                   worker_thread, fs, archive, uploads, closes, pings, ctl,
                   sub, call, seen_keys, stop_trace>>
    /\ UNCHANGED aux_vars

\* shutil.move(file_info.path, archive_path) goes through: the source is
\* there and the file system (`io_ok`) raises nothing.
MoveSucceeds(file_info, io_ok) == io_ok /\ Path(file_info) \in fs

\* _archive_file: pick the target name and move the file there (True), or
\* catch the move's exception and leave everything as it is (False).
archive_file(file_info, io_ok) ==
    IF MoveSucceeds(file_info, io_ok)
    THEN /\ archive' = archive \cup {ArchivePath(file_info.name, archive)}
         /\ fs' = fs \ {Path(file_info)}
    ELSE UNCHANGED <<archive, fs>>

\* Faulty variant: a failed move is counted as a failed upload.
ArchiveFileCountsFailed(w, io_ok) ==
    /\ workers[w].pc = "archive"
    /\ archive_file(workers[w].file_info, io_ok)
    /\ stats' = IF MoveSucceeds(workers[w].file_info, io_ok)
                THEN increment_archived(stats) ELSE increment_failed(stats)
    /\ workers' = WorkerDone(w)
    /\ UNCHANGED <<is_running, processing_queue, processed_files,
                   worker_thread, uploads, closes, pings, ctl, sub, call,
                   seen_keys, stop_trace>>
    /\ UNCHANGED aux_vars

\* The worker's call of _archive_file and the lines after it: archived is
\* counted when it returned True.
ArchiveFile(w, io_ok) ==
    /\ workers[w].pc = "archive"
    /\ archive_file(workers[w].file_info, io_ok)
    /\ stats' = IF MoveSucceeds(workers[w].file_info, io_ok)
                THEN increment_archived(stats) ELSE stats
    /\ workers' = WorkerDone(w)
    /\ UNCHANGED <<is_running, processing_queue, processed_files,
                   worker_thread, uploads, closes, pings, ctl, sub, call,
                   seen_keys, stop_trace>>
    /\ UNCHANGED aux_vars

(* --------------------------- specification ---------------------------- *)
Next ==
    \/ \E connected \in BOOLEAN : Start(connected)
    \/ StopCall
    \/ StopPut
    \/ StopJoin
    \/ StopClose
    \/ StopLog
    \/ \E file_info \in FileInfos : ProcessFile(file_info)
    \/ ProcessFileTotal
    \/ \E w \in Workers : WorkerLoop(w)
    \/ \E w \in Workers : WorkerGet(w)
    \/ \E w \in Workers : ProcessSingleFile(w)
    \/ \E w \in Workers, outcome \in {"success", "failure", "raise"} :
           UploadReturn(w, outcome)
    \/ \E w \in Workers, io_ok \in BOOLEAN : ArchiveFile(w, io_ok)

Spec == Init /\ [][Next]_vars

(* ------------------- the processor running, never stopped ------------- *)
\* the steps of the program in which stop() is never called
NextRun ==
    \/ \E connected \in BOOLEAN : Start(connected)
    \/ \E file_info \in FileInfos : ProcessFile(file_info)
    \/ ProcessFileTotal
    \/ \E w \in Workers : WorkerLoop(w)
    \/ \E w \in Workers : WorkerGet(w)
    \/ \E w \in Workers : ProcessSingleFile(w)
    \/ \E w \in Workers, outcome \in {"success", "failure", "raise"} :
          UploadReturn(w, outcome)
    \/ \E w \in Workers, io_ok \in BOOLEAN : ArchiveFile(w, io_ok)

\* The worker thread is scheduled fairly: the step it is at is eventually
\* taken.  The queue get returns within its timeout, upload_asset returns
\* and the archive move returns.
WorkerStep(w) ==
    \/ WorkerLoop(w)
    \/ WorkerGet(w)
    \/ ProcessSingleFile(w)
    \/ \E outcome \in {"success", "failure", "raise"} : UploadReturn(w, outcome)
    \/ \E io_ok \in BOOLEAN : ArchiveFile(w, io_ok)

FairWorker == \A w \in Workers : WF_vars(WorkerStep(w))

SpecRun == Init /\ [][NextRun]_vars /\ FairWorker

(* ----------------------- _archive_file on its own --------------------- *)
\* The archive directory already holds some names, the files to archive
\* are in place, and the processor is never started.
InitArchive ==
    /\ InitProcessor
    /\ fs = { Path(f) : f \in ArchiveInputs }
    /\ archive \in SUBSET PreArchived
    /\ InitClientIdle
    /\ InitHandlerIdle
    /\ InitRestIdle
    /\ InitStabilityIdle
    /\ InitValidIdle

\* processor._archive_file(file_info), called directly.
ArchiveCall(file_info, io_ok) ==
    /\ archive_file(file_info, io_ok)
    /\ UNCHANGED <<is_running, processing_queue, processed_files, stats,
                   worker_thread, workers, uploads, closes, pings, ctl, sub,
                   call, seen_keys, stop_trace>>
    /\ UNCHANGED aux_vars

NextArchive ==
    \E file_info \in ArchiveInputs, io_ok \in BOOLEAN :
        ArchiveCall(file_info, io_ok)

SpecArchive == InitArchive /\ [][NextArchive]_vars

(* ---------------------- ImmichClient.upload_asset --------------------- *)
\* Everything that is not the ImmichClient
not_client_vars == <<proc_vars, handler_vars, stability_vars, valid_vars,
                     scan_vars, lock_vars, dispatch_vars, notify_vars>>

\* Pre-upload validation of upload_asset: is_valid(config), then, for a video
\* extension with verify_video_integrity on, _validate_video_file.
ValidationFails(input, verify_video_integrity) ==
    \/ ~input.valid
    \/ verify_video_integrity /\ input.video /\ ~input.video_ok

\* The message of the failure result validation returns.
ValidationMessage(input) ==
    IF ~input.valid THEN Message("File is not valid for upload", 0, "")
    ELSE Message("Video integrity check failed: ", 0, "error_msg")

\* Faulty variant: upload_asset without the video integrity check.
UploadAssetNoVideoCheck(input) ==
    /\ client.pc = "idle"
    /\ client' = [client EXCEPT !.api = "upload_asset", !.input = input,
                  !.pc = IF ~input.valid \/ ~input.readable
                         THEN "idle" ELSE "post"]
    /\ session' = IF ~input.valid \/ ~input.readable THEN Session("none")
                  ELSE [Session("POST") EXCEPT !.post_calls = 1]
    /\ result' =
         IF ~input.valid
         THEN ImmichUploadResult("upload_asset", FALSE,
                                 ValidationMessage(input), "None")
         ELSE IF ~input.readable
         THEN ImmichUploadResult("upload_asset", FALSE,
                  Message("Unexpected error: ", 0, "FileNotFoundError"),
                  "None")
         ELSE NoResult
    /\ UNCHANGED not_client_vars

\* upload_asset(file_info) up to the call of session.post: validation
\* failures return a failure result at once; open() raising is caught by
\* `except Exception`; otherwise session.post is called once.
UploadAsset(input) ==
    /\ client.pc = "idle"
    /\ LET returns == \/ ValidationFails(input, client.verify_video_integrity)
                      \/ ~input.readable
       IN /\ client' = [client EXCEPT !.api = "upload_asset",
                                      !.input = input,
                                      !.pc = IF returns THEN "idle" ELSE "post"]
          /\ session' = IF returns THEN Session("none")
                        ELSE [Session("POST") EXCEPT !.post_calls = 1]
          /\ result' =
               IF ValidationFails(input, client.verify_video_integrity)
               THEN ImmichUploadResult("upload_asset", FALSE,
                                       ValidationMessage(input), "None")
               ELSE IF ~input.readable
               THEN ImmichUploadResult("upload_asset", FALSE,
                        Message("Unexpected error: ", 0, "FileNotFoundError"),
                        "None")
               ELSE NoResult
    /\ UNCHANGED not_client_vars

\* test_connection() up to the call of session.get.
TestConnection ==
    /\ client.pc = "idle"
    /\ client' = [client EXCEPT !.api = "test_connection", !.input = NoInput,
                                !.pc = "get"]
    /\ session' = [Session("GET") EXCEPT !.get_calls = 1]
    /\ result' = NoResult
    /\ UNCHANGED not_client_vars

\* Retry.is_retry(method, status_code): a response is retried only for a
\* method of allowed_methods and a status of status_forcelist.
is_retry(method, status_code) ==
    method \in allowed_methods /\ status_code \in status_forcelist

\* Whether the transport may repeat the request after this attempt: always
\* after a failure to connect (nothing was sent), after a broken read only
\* for a method of allowed_methods, after a response as is_retry says.
Retryable(method, outcome) ==
    \/ outcome.kind = "connect error"
    \/ outcome.kind = "read error" /\ method \in allowed_methods
    \/ outcome.kind = "response" /\ is_retry(method, outcome.status)

\* The exception session.post/get raises when the last attempt ended with
\* this outcome ("none": the response is returned).
Raised(method, outcome) ==
    IF outcome.kind = "connect error" THEN "ConnectionError"
    ELSE IF outcome.kind = "read error" THEN "ReadTimeout"
    ELSE IF is_retry(method, outcome.status) THEN "RetryError"
    ELSE "none"

\* One attempt of the request in flight ends with `outcome`.  The adapter
\* repeats it while Retry allows and total is not used up; otherwise
\* session.post/get hands the response back or raises.
Send(outcome) ==
    /\ client.pc \in {"post", "get"}
    /\ IF Retryable(session.method, outcome) /\ session.total > 0
       THEN /\ session' = [session EXCEPT !.attempts = @ + 1,
                                          !.total = @ - 1]
            /\ UNCHANGED client
       ELSE /\ session' = [session EXCEPT
                             !.attempts = @ + 1,
                             !.outcome = outcome,
                             !.raised = Raised(session.method, outcome)]
            /\ client' = [client EXCEPT !.pc = "respond"]
    /\ UNCHANGED <<result, not_client_vars>>

\* asset_id = result_data.get('id')
BodyId(body) == IF body = "object with id" THEN "id" ELSE "None"

\* The `if response.status_code ...` chain of upload_asset and the two
\* except clauses around it.
ResponseResult(s) ==
    IF s.raised # "none"
    THEN \* except requests.exceptions.RequestException
         ImmichUploadResult("upload_asset", FALSE,
                            Message("Network error: ", 0, s.raised), "None")
    ELSE IF s.outcome.status \in {200, 201}
    THEN IF s.outcome.body = "not JSON"
         THEN \* response.json() raises ValueError
              ImmichUploadResult("upload_asset", TRUE,
                                 Message("Upload successful", 0, ""), "None")
         ELSE IF s.outcome.body = "not an object"
         THEN \* result_data.get raises AttributeError: except Exception
              ImmichUploadResult("upload_asset", FALSE,
                  Message("Unexpected error: ", 0, "AttributeError"), "None")
         ELSE ImmichUploadResult("upload_asset", TRUE,
                  Message("Upload successful", 0, ""), BodyId(s.outcome.body))
    ELSE IF s.outcome.status = 400
    THEN ImmichUploadResult("upload_asset", FALSE,
             Message("Bad request - check file format and API parameters",
                     0, ""), "None")
    ELSE IF s.outcome.status = 401
    THEN ImmichUploadResult("upload_asset", FALSE,
             Message("Unauthorized - check API key", 0, ""), "None")
    ELSE IF s.outcome.status = 409
    THEN ImmichUploadResult("upload_asset", TRUE,
             Message("Asset already exists", 0, ""), "None")
    ELSE ImmichUploadResult("upload_asset", FALSE,
             Message("HTTP : response.text", s.outcome.status, ""), "None")

\* Faulty variant: upload_asset without its except clauses, so that what
\* session.post or the response handling raises leaves the call.
HandleResponseNoExcept ==
    /\ client.pc = "respond"
    /\ client.api = "upload_asset"
    /\ client' = [client EXCEPT !.pc = "idle"]
    /\ result' =
         IF ResponseResult(session).message.error # ""
         THEN \* the exception str(e) names
              [NoResult EXCEPT !.api = "upload_asset",
                               !.raised = ResponseResult(session).message.error]
         ELSE ResponseResult(session)
    /\ UNCHANGED <<session, not_client_vars>>

\* upload_asset from the return of session.post to its own return.
HandleResponse ==
    /\ client.pc = "respond"
    /\ client.api = "upload_asset"
    /\ client' = [client EXCEPT !.pc = "idle"]
    /\ result' = ResponseResult(session)
    /\ UNCHANGED <<session, not_client_vars>>

\* test_connection from the return of session.get: True only for status
\* 200, False for any other status and for a RequestException.
TestConnectionReturn ==
    /\ client.pc = "respond"
    /\ client.api = "test_connection"
    /\ client' = [client EXCEPT !.pc = "idle"]
    /\ result' = ImmichUploadResult("test_connection",
                     session.raised = "none" /\ session.outcome.status = 200,
                     Message("", 0, ""), "None")
    /\ UNCHANGED <<session, not_client_vars>>

\* A client built from either configuration, no call made yet.
InitClient ==
    /\ InitProcessor
    /\ fs = { Path(f) : f \in FileInfos }
    /\ archive = {}
    /\ \E verify_video_integrity \in BOOLEAN :
           client = Client("idle", "none", NoInput, verify_video_integrity)
    /\ session = Session("none")
    /\ result = NoResult
    /\ InitHandlerIdle
    /\ InitRestIdle
    /\ InitStabilityIdle
    /\ InitValidIdle

NextClient ==
    \/ \E input \in UploadInputs : UploadAsset(input)
    \/ TestConnection
    \/ \E outcome \in Outcomes : Send(outcome)
    \/ HandleResponse
    \/ TestConnectionReturn

SpecClient == InitClient /\ [][NextClient]_vars

(* ---------------- ImmichFileHandler._handle_file_event ---------------- *)
\* Everything that is not the ImmichFileHandler's in-flight set and threads
not_handler_vars == <<proc_vars, client_vars, stability_vars, valid_vars,
                      scan_vars, lock_vars, dispatch_vars, notify_vars>>

\* An event for file_path reaches thread t, which runs the test
\* `if file_path in self.processing_files: return`.  The insertion is a
\* later statement, with no lock held across the two.
HandleFileEvent(t, file_path) ==
    /\ handlers[t].pc = "idle"
    /\ handlers' =
         [handlers EXCEPT ![t] =
            IF file_path \in processing_files
            THEN Handler("idle", file_path, "none", "none", 0, "duplicate")
            ELSE Handler("add", file_path, "none", "none", 0, "none")]
    /\ UNCHANGED <<processing_files, not_handler_vars>>

\* self.processing_files.add(file_path), then the call of
\* _wait_for_file_stability.
Add(t) ==
    /\ handlers[t].pc = "add"
    /\ processing_files' = processing_files \cup {handlers[t].file_path}
    /\ handlers' = [handlers EXCEPT ![t].pc = "wait"]
    /\ UNCHANGED not_handler_vars

\* _wait_for_file_stability returns True or False, or raises (path.exists()
\* on entry is outside its try block).
WaitReturns(t, stable) ==
    /\ handlers[t].pc = "wait"
    /\ handlers' =
         [handlers EXCEPT
            ![t].stable = stable,
            ![t].pc = IF stable = "true" THEN "validate" ELSE "finally",
            ![t].exit = IF stable = "true" THEN "none"
                        ELSE IF stable = "false" THEN "not stable"
                        ELSE "check raised"]
    /\ UNCHANGED <<processing_files, not_handler_vars>>

\* Faulty variant: on_file_ready is invoked whatever is_valid answers.
FileReadyIgnoresValidity(t, valid, raises) ==
    /\ handlers[t].pc = "validate"
    /\ handlers' =
         [handlers EXCEPT
            ![t].valid = IF valid THEN "yes" ELSE "no",
            ![t].ready = @ + 1,
            ![t].exit = IF raises THEN "callback raised" ELSE "ready",
            ![t].pc = "finally"]
    /\ UNCHANGED <<processing_files, not_handler_vars>>

\* After a True check: FileInfo(file_path), is_valid(config) and, for a
\* valid record, on_file_ready(file_info), which returns or raises.
FileReady(t, valid, raises) ==
    /\ handlers[t].pc = "validate"
    /\ handlers' =
         [handlers EXCEPT
            ![t].valid = IF valid THEN "yes" ELSE "no",
            ![t].ready = IF valid THEN @ + 1 ELSE @,
            ![t].exit = IF ~valid THEN "invalid"
                        ELSE IF raises THEN "callback raised" ELSE "ready",
            ![t].pc = "finally"]
    /\ UNCHANGED <<processing_files, not_handler_vars>>

\* Faulty variant: the discard sits at the end of the try block instead of
\* in `finally`, so an exception skips it.
FinallyOnlyWithoutException(t) ==
    /\ handlers[t].pc = "finally"
    /\ processing_files' =
         IF handlers[t].exit \in {"check raised", "callback raised"}
         THEN processing_files
         ELSE processing_files \ {handlers[t].file_path}
    /\ handlers' = [handlers EXCEPT ![t].pc = "idle"]
    /\ UNCHANGED not_handler_vars

\* finally: self.processing_files.discard(file_path); the call returns.
Finally(t) ==
    /\ handlers[t].pc = "finally"
    /\ processing_files' = processing_files \ {handlers[t].file_path}
    /\ handlers' = [handlers EXCEPT ![t].pc = "idle"]
    /\ UNCHANGED not_handler_vars

InitHandler ==
    /\ InitProcessor
    /\ fs = { Path(f) : f \in FileInfos }
    /\ archive = {}
    /\ InitClientIdle
    /\ InitHandlerIdle
    /\ InitRestIdle
    /\ InitStabilityIdle
    /\ InitValidIdle

NextHandler ==
    \E t \in Handlers :
        \/ \E file_path \in Paths : HandleFileEvent(t, file_path)
        \/ Add(t)
        \/ \E stable \in {"true", "false", "raise"} : WaitReturns(t, stable)
        \/ \E valid \in BOOLEAN, raises \in BOOLEAN : FileReady(t, valid, raises)
        \/ Finally(t)

SpecHandler == InitHandler /\ [][NextHandler]_vars

(* -------------------- _wait_for_file_stability ------------------------ *)
\* Everything that is not the stability check and its file
not_stability_vars == <<proc_vars, client_vars, handler_vars, valid_vars,
                        scan_vars, lock_vars, dispatch_vars, notify_vars>>

\* _get_file_hash: the digest of the content, None when the file cannot be
\* opened.
get_file_hash(f) == IF f.exists /\ f.readable THEN f.hash ELSE "None"

\* _calculate_required_stability(file_size)
calculate_required_stability(file_size) ==
    IF file_size >= min_stability_wait_size_mb
    THEN file_stability_wait_seconds_video
    ELSE file_stability_wait_seconds

\* The check returns `res` from the statement `by`.
Return(res, by) ==
    /\ check' = [check EXCEPT !.pc = "idle", !.result = res]
    /\ observed' = [observed EXCEPT !.by = by]

\* Faulty variant of the entry: a path that does not exist goes into the
\* polling loop like any other.
WaitForFileStabilityPollsAbsent ==
    /\ check.pc = "idle"
    /\ check.result = "none"
    /\ check' = [check EXCEPT !.pc = "sleep"]
    /\ observed' = [observed EXCEPT !.existed = file.exists]
    /\ UNCHANGED <<file, now, not_stability_vars>>

\* Entry: `if not path.exists(): return False`.
WaitForFileStability ==
    /\ check.pc = "idle"
    /\ check.result = "none"
    /\ IF ~file.exists
       THEN Return("false", "absent at start")
       ELSE /\ check' = [check EXCEPT !.pc = "stat0"]
            /\ observed' = [observed EXCEPT !.existed = TRUE]
    /\ UNCHANGED <<file, now, not_stability_vars>>

\* last_size = path.stat().st_size; last_hash = _get_file_hash(...);
\* stable_start_time = None.  stat() raising is caught by the outer except,
\* which returns False.
InitialStat ==
    /\ check.pc = "stat0"
    /\ IF ~file.exists
       THEN Return("false", "error")
       ELSE /\ check' = [check EXCEPT !.pc = "sleep",
                                      !.last_size = file.size,
                                      !.last_hash = get_file_hash(file),
                                      !.stable_start_time = NoTime]
            /\ observed' = [observed EXCEPT
                              !.last = Observation(file.size,
                                                   get_file_hash(file))]
    /\ UNCHANGED <<file, now, not_stability_vars>>

\* time.sleep(file_stability_check_interval): one interval, or more when
\* the thread is scheduled late.
Sleep(d) ==
    /\ check.pc = "sleep"
    /\ now + d <= MaxClock
    /\ now' = now + d
    /\ check' = [check EXCEPT !.pc = "exists"]
    /\ UNCHANGED <<file, observed, not_stability_vars>>

\* `if not path.exists(): return True`
PollExists ==
    /\ check.pc = "exists"
    /\ IF ~file.exists
       THEN Return("true", "disappeared")
       ELSE check' = [check EXCEPT !.pc = "stat"] /\ UNCHANGED observed
    /\ UNCHANGED <<file, now, not_stability_vars>>

\* current_size = path.stat().st_size, `return False` when stat() raises.
PollStat ==
    /\ check.pc = "stat"
    /\ IF ~file.exists
       THEN Return("false", "stat failed")
       ELSE /\ check' = [check EXCEPT !.pc = "compare",
                                      !.current_size = file.size]
            /\ UNCHANGED observed
    /\ UNCHANGED <<file, now, not_stability_vars>>

\* The hash read now if current_size is above the threshold, else last_hash.
CurrentHash ==
    IF check.current_size > HashThresholdMiB THEN get_file_hash(file)
    ELSE check.last_hash

\* `current_size != last_size or content_changed`
Changed ==
    check.current_size # check.last_size \/ CurrentHash # check.last_hash

\* The observation this poll makes, and whether it differs from the
\* previous one (history).
Observe ==
    LET obs == Observation(check.current_size, get_file_hash(file))
    IN  [observed EXCEPT
           !.last = obs,
           !.changed_seen = @ \/ obs # observed.last,
           !.hash_failed = @ \/ (/\ check.current_size > HashThresholdMiB
                                 /\ get_file_hash(file) = "None"),
           !.unchanged_since = IF obs # observed.last THEN NoTime
                               ELSE IF @ = NoTime THEN now ELSE @]

\* Faulty variant: a change updates last_size and last_hash but leaves the
\* running timer alone.
PollCompareKeepsTimer ==
    /\ check.pc = "compare"
    /\ IF Changed
       THEN /\ check' = [check EXCEPT !.pc = "sleep",
                                      !.last_size = check.current_size,
                                      !.last_hash = CurrentHash]
            /\ observed' = Observe
       ELSE LET start == IF check.stable_start_time = NoTime THEN now
                         ELSE check.stable_start_time
            IN  IF now - start >= calculate_required_stability(check.current_size)
                THEN /\ check' = [check EXCEPT !.pc = "idle",
                                               !.result = "true",
                                               !.stable_start_time = start]
                     /\ observed' = [Observe EXCEPT !.by = "stable"]
                ELSE /\ check' = [check EXCEPT !.pc = "sleep",
                                               !.stable_start_time = start]
                     /\ observed' = Observe
    /\ UNCHANGED <<file, now, not_stability_vars>>

\* Faulty variant: the check gives up with False when the file is still
\* changing after three intervals.
PollCompareGivesUp ==
    /\ check.pc = "compare"
    /\ IF Changed
       THEN IF now >= 3
            THEN /\ check' = [check EXCEPT !.pc = "idle", !.result = "false"]
                 /\ observed' = [Observe EXCEPT !.by = "gave up"]
            ELSE /\ check' = [check EXCEPT !.pc = "sleep",
                                           !.last_size = check.current_size,
                                           !.last_hash = CurrentHash,
                                           !.stable_start_time = NoTime]
                 /\ observed' = Observe
       ELSE LET start == IF check.stable_start_time = NoTime THEN now
                         ELSE check.stable_start_time
            IN  IF now - start >= calculate_required_stability(check.current_size)
                THEN /\ check' = [check EXCEPT !.pc = "idle",
                                               !.result = "true",
                                               !.stable_start_time = start]
                     /\ observed' = [Observe EXCEPT !.by = "stable"]
                ELSE /\ check' = [check EXCEPT !.pc = "sleep",
                                               !.stable_start_time = start]
                     /\ observed' = Observe
    /\ UNCHANGED <<file, now, not_stability_vars>>

\* The rest of one poll: the hash for a file above the threshold, the
\* comparison with the previous poll, and the timer: a change resets it;
\* no change starts it if it is not running and returns True once it has
\* run for the required duration.
PollCompare ==
    /\ check.pc = "compare"
    /\ IF Changed
       THEN /\ check' = [check EXCEPT !.pc = "sleep",
                                      !.last_size = check.current_size,
                                      !.last_hash = CurrentHash,
                                      !.stable_start_time = NoTime]
            /\ observed' = Observe
       ELSE LET start == IF check.stable_start_time = NoTime THEN now
                         ELSE check.stable_start_time
            IN  IF now - start >= calculate_required_stability(check.current_size)
                THEN /\ check' = [check EXCEPT !.pc = "idle",
                                               !.result = "true",
                                               !.stable_start_time = start]
                     /\ observed' = [Observe EXCEPT !.by = "stable"]
                ELSE /\ check' = [check EXCEPT !.pc = "sleep",
                                               !.stable_start_time = start]
                     /\ observed' = Observe
    /\ UNCHANGED <<file, now, not_stability_vars>>

\* Another process writes to the file while the check runs.
Write(size, hash) ==
    /\ check.pc # "idle"
    /\ file.exists
    /\ <<size, hash>> # <<file.size, file.hash>>
    /\ file' = File(TRUE, size, hash, file.readable)
    /\ UNCHANGED <<check, now, observed, not_stability_vars>>

\* Another process takes away or gives back read access to the file while
\* the check runs (its mode is changed, it is locked or unlocked).
Protect(readable) ==
    /\ check.pc # "idle"
    /\ file.exists
    /\ readable # file.readable
    /\ file' = [file EXCEPT !.readable = readable]
    /\ UNCHANGED <<check, now, observed, not_stability_vars>>

\* Another process removes the file while the check runs.
Delete ==
    /\ check.pc # "idle"
    /\ file.exists
    /\ file' = [file EXCEPT !.exists = FALSE]
    /\ observed' = [observed EXCEPT !.deleted_at = check.pc]
    /\ UNCHANGED <<check, now, not_stability_vars>>

\* A check is about to start on a path whose file may or may not exist.
InitStability ==
    /\ InitProcessor
    /\ fs = { Path(f) : f \in FileInfos }
    /\ archive = {}
    /\ InitClientIdle
    /\ InitHandlerIdle
    /\ InitRestIdle
    /\ InitValidIdle
    /\ \E exists \in BOOLEAN, size \in Sizes, hash \in Hashes,
          readable \in BOOLEAN :
           file = File(exists, size, hash, readable)
    /\ check = CheckIdle
    /\ now = 0
    /\ observed = NothingObserved

NextStability ==
    \/ WaitForFileStability
    \/ InitialStat
    \/ \E d \in {1, 2} : Sleep(d)
    \/ PollExists
    \/ PollStat
    \/ PollCompare
    \/ \E size \in Sizes, hash \in Hashes : Write(size, hash)
    \/ \E readable \in BOOLEAN : Protect(readable)
    \/ Delete

SpecStability == InitStability /\ [][NextStability]_vars

(* ------------- one event, its handler thread and its check ------------ *)
\* the thread and the path of the event
EventThread == 1

EventPath == "/watch/a.jpg"

\* the steps of _wait_for_file_stability
CheckStep ==
    \/ WaitForFileStability
    \/ InitialStat
    \/ \E d \in {1, 2} : Sleep(d)
    \/ PollExists
    \/ PollStat
    \/ PollCompare

\* what other processes do to the file while the check runs
FileStep ==
    \/ \E size \in Sizes, hash \in Hashes : Write(size, hash)
    \/ \E readable \in BOOLEAN : Protect(readable)
    \/ Delete

\* _handle_file_event for one event: the check runs inside the handler's
\* call of _wait_for_file_stability, and what the check returns is what
\* the handler gets.
HandlerStep ==
    \/ check.result = "none" /\ HandleFileEvent(EventThread, EventPath)
    \/ Add(EventThread)
    \/ handlers[EventThread].pc = "wait" /\ CheckStep
    \/ /\ check.pc = "idle"
       /\ check.result # "none"
       /\ WaitReturns(EventThread, check.result)
    \/ \E valid \in BOOLEAN, raises \in BOOLEAN :
          FileReady(EventThread, valid, raises)
    \/ Finally(EventThread)

NextWait == HandlerStep \/ FileStep

\* The handler's thread is scheduled: time.sleep returns and each statement
\* of the call is eventually executed.  Nothing is assumed of the other
\* processes.
FairHandler == WF_vars(HandlerStep)

SpecWait == InitStability /\ [][NextWait]_vars /\ FairHandler

(* -------------------------- FileInfo.is_valid ------------------------- *)
\* Everything that is not the is_valid evaluation
not_valid_vars == <<proc_vars, client_vars, handler_vars, stability_vars,
                    scan_vars, lock_vars, dispatch_vars, notify_vars>>

\* FileInfo.extension: path.suffix.lower().lstrip('.'), the suffix being
\* what follows the last dot unless that dot starts or ends the name.
Extension(name) ==
    IF Len(name) >= 2 /\ name[Len(name)] # ""
                      /\ ~(Len(name) = 2 /\ name[1] = "")
    THEN Lower(name[Len(name)]) ELSE ""

\* Config.is_supported_file(filename):
\* filename.lower().split(".")[-1] if "." in filename else "", looked up in
\* supported_extensions as configured.
is_supported_file(filename, supported_extensions) ==
    LET extension == IF Len(filename) >= 2
                     THEN Lower(filename[Len(filename)]) ELSE ""
    IN  extension \in supported_extensions

\* Path.parents: the proper prefixes of a resolved path
Parents(path) == { SubSeq(path, 1, n) : n \in 0..(Len(path) - 1) }

\* Config.is_in_archive_directory(file_path)
is_in_archive_directory(resolved) ==
    \/ archive_directory_resolved \in Parents(resolved)
    \/ resolved = archive_directory_resolved

\* Config.get_file_size_limit_bytes() for this max_file_size_mb
FileSizeLimitBytes == max_file_size_mb * 1024 * 1024

\* FileInfo.is_valid(config): the chain of early returns.
FileInfoIsValid(input) ==
    IF input.kind = "missing" THEN FALSE
    ELSE IF input.kind # "file" THEN FALSE
    ELSE IF input.size_bytes > FileSizeLimitBytes THEN FALSE
    ELSE IF ~is_supported_file(input.name, input.supported_extensions)
    THEN FALSE
    ELSE IF is_in_archive_directory(input.resolved) THEN FALSE
    ELSE TRUE

\* file_info.is_valid(config) is called.
IsValidCall ==
    /\ probe.answer = "none"
    /\ probe' = [probe EXCEPT
                   !.answer = IF FileInfoIsValid(probe.input)
                              THEN "true" ELSE "false"]
    /\ UNCHANGED not_valid_vars

\* Any record under any configuration, is_valid not yet called.
InitValid ==
    /\ InitProcessor
    /\ fs = { Path(f) : f \in FileInfos }
    /\ archive = {}
    /\ InitClientIdle
    /\ InitHandlerIdle
    /\ InitRestIdle
    /\ InitStabilityIdle
    /\ \E input \in ValidInputs : probe = Probe(input, "none")

NextValid == IsValidCall

SpecValid == InitValid /\ [][NextValid]_vars

(* ---------------- FileInfo.__init__ followed by is_valid -------------- *)
\* A FileInfo as ValidInput describes it, with the captured modified_time
\* and how the capture went: "no" (not yet constructed), "missing" (stat()
\* raised, size and time set to 0) or "present".
CapturedInfo(input, modified_time, captured) ==
    [kind |-> input.kind, size_bytes |-> input.size_bytes,
     name |-> input.name, resolved |-> input.resolved,
     supported_extensions |-> input.supported_extensions,
     modified_time |-> modified_time, captured |-> captured]

\* FileInfo.__init__(path): size_bytes and modified_time from stat(), or 0
\* and 0 when stat() raises because nothing is at the path.
CaptureFileInfo(size_bytes, modified_time) ==
    /\ probe.input.captured = "no"
    /\ probe' =
         [probe EXCEPT
            !.input.size_bytes =
                IF probe.input.kind = "missing" THEN 0 ELSE size_bytes,
            !.input.modified_time =
                IF probe.input.kind = "missing" THEN 0 ELSE modified_time,
            !.input.captured =
                IF probe.input.kind = "missing" THEN "missing" ELSE "present"]
    /\ UNCHANGED not_valid_vars

\* After the capture another process creates a regular file at the path.
Appear ==
    /\ probe.input.captured # "no"
    /\ probe.input.kind = "missing"
    /\ probe' = [probe EXCEPT !.input.kind = "file"]
    /\ UNCHANGED not_valid_vars

\* After the capture another process removes what is at the path.
Vanish ==
    /\ probe.input.captured # "no"
    /\ probe.input.kind # "missing"
    /\ probe' = [probe EXCEPT !.input.kind = "missing"]
    /\ UNCHANGED not_valid_vars

\* A validation pass on the captured record: file_info.is_valid(config).
Validate ==
    /\ probe.input.captured # "no"
    /\ probe' = [probe EXCEPT
                   !.answer = IF FileInfoIsValid(probe.input)
                              THEN "true" ELSE "false"]
    /\ UNCHANGED not_valid_vars

\* A path with or without something at it, no FileInfo constructed yet.
InitCapture ==
    /\ InitProcessor
    /\ fs = { Path(f) : f \in FileInfos }
    /\ archive = {}
    /\ InitClientIdle
    /\ InitHandlerIdle
    /\ InitRestIdle
    /\ InitStabilityIdle
    /\ \E input \in ValidInputs :
           /\ input.size_bytes = 0
           /\ probe = Probe(CapturedInfo(input, 0, "no"), "none")

NextCapture ==
    \/ \E size_bytes \in {0, FileSizeLimitBytes, FileSizeLimitBytes + 1},
          modified_time \in {1, 2} :
           CaptureFileInfo(size_bytes, modified_time)
    \/ Appear
    \/ Vanish
    \/ Validate

SpecCapture == InitCapture /\ [][NextCapture]_vars

(* ------------- FileWatcher._initial_scan / _scan_directory ------------ *)
not_scan_vars ==
    <<proc_vars, client_vars, handler_vars, stability_vars, valid_vars,
      lock_vars, dispatch_vars, notify_vars>>

\* Entries a watch directory lists at most
MaxItems == 2

\* What the watcher's configuration gives every FileInfo of one scan
scan_supported_extensions == {"jpg", "png"}

\* Files a directory may hold, as is_valid will see them: a valid one, one
\* with an unsupported extension, one over the size limit, one resolving
\* into the archive directory, one removed after it was listed.
ScanFiles ==
    { ValidInput("file", 0, <<"x", "jpg">>, <<"watch", "f">>,
                 scan_supported_extensions),
      ValidInput("file", 0, <<"x", "txt">>, <<"watch", "f">>,
                 scan_supported_extensions),
      ValidInput("file", FileSizeLimitBytes + 1, <<"x", "jpg">>,
                 <<"watch", "f">>, scan_supported_extensions),
      ValidInput("file", 0, <<"x", "jpg">>, <<"archive", "f">>,
                 scan_supported_extensions),
      ValidInput("missing", 0, <<"x", "jpg">>, <<"watch", "f">>,
                 scan_supported_extensions) }

\* One entry of directory.iterdir(): what item.is_file() and item.is_dir()
\* answer, the FileInfo of a file, the listing of a subdirectory, and how
\* deep below the watch directory the entry is.
Item(is_file, is_dir, input, children, depth) ==
    [is_file |-> is_file, is_dir |-> is_dir, input |-> input,
     children |-> children, depth |-> depth]

FileItems(depth) ==
    { Item(TRUE, FALSE, input, <<>>, depth) : input \in ScanFiles }

Items ==
    FileItems(0)
    \cup { Item(FALSE, TRUE, ValidInput("directory", 0, <<"x">>,
                                        <<"watch", "f">>,
                                        scan_supported_extensions),
                <<child>>, 0) : child \in FileItems(1) }
    \cup { Item(FALSE, FALSE, ValidInput("missing", 0, <<"x">>,
                                         <<"watch", "f">>,
                                         scan_supported_extensions),
                <<>>, 0) }

Listings == UNION { [1..n -> Items] : n \in 0..MaxItems }

\* FileWatcher.start() reaches _initial_scan(): the watch directory is
\* listed.
InitialScan ==
    /\ scan.pc = "idle"
    /\ scan' = [scan EXCEPT !.pc = "scanning"]
    /\ UNCHANGED not_scan_vars

\* Faulty variant of one loop iteration: the callback is invoked for every
\* regular file, valid or not.
ScanItemNoValidation ==
    /\ scan.pc = "scanning"
    /\ scan.todo # <<>>
    /\ LET item == Head(scan.todo)
       IN  scan' =
             IF item.is_file
             THEN [scan EXCEPT
                     !.todo = Tail(@),
                     !.enumerated = Append(@, item),
                     !.ready = Append(@, item.input)]
             ELSE IF item.is_dir /\ scan.recursive
             THEN [scan EXCEPT !.todo = item.children \o Tail(@)]
             ELSE [scan EXCEPT !.todo = Tail(@)]
    /\ UNCHANGED not_scan_vars

\* One iteration of the loop of _scan_directory: a regular file gets a
\* FileInfo, and on_file_ready(file_info) if it is valid; a directory is
\* scanned in turn when recursive; anything else is passed over.
ScanItem ==
    /\ scan.pc = "scanning"
    /\ scan.todo # <<>>
    /\ LET item == Head(scan.todo)
       IN  scan' =
             IF item.is_file
             THEN [scan EXCEPT
                     !.todo = Tail(@),
                     !.enumerated = Append(@, item),
                     !.ready = IF FileInfoIsValid(item.input)
                               THEN Append(@, item.input) ELSE @]
             ELSE IF item.is_dir /\ scan.recursive
             THEN [scan EXCEPT !.todo = item.children \o Tail(@)]
             ELSE [scan EXCEPT !.todo = Tail(@)]
    /\ UNCHANGED not_scan_vars

\* iterdir() raises PermissionError or OSError: the rest of the directory
\* being listed is given up with a warning, the directory above goes on.
ScanError ==
    /\ scan.pc = "scanning"
    /\ scan.todo # <<>>
    /\ scan' = [scan EXCEPT
                  !.todo = SelectSeq(@, LAMBDA item :
                                          item.depth < Head(scan.todo).depth)]
    /\ UNCHANGED not_scan_vars

\* "Initial scan completed"
ScanCompleted ==
    /\ scan.pc = "scanning"
    /\ scan.todo = <<>>
    /\ scan' = [scan EXCEPT !.pc = "done"]
    /\ UNCHANGED not_scan_vars

InitScan ==
    /\ InitProcessor
    /\ fs = { Path(f) : f \in FileInfos }
    /\ archive = {}
    /\ InitClientIdle
    /\ InitHandlerIdle
    /\ InitLockIdle
    /\ InitDispatchIdle
    /\ InitNotifierIdle
    /\ InitStabilityIdle
    /\ InitValidIdle
    /\ \E recursive \in BOOLEAN, todo \in Listings :
           scan = Scan("idle", recursive, todo, <<>>, <<>>)

NextScan ==
    \/ InitialScan
    \/ ScanItem
    \/ ScanError
    \/ ScanCompleted

SpecScan == InitScan /\ [][NextScan]_vars

(* ------------------- ProcessingStats under its lock ------------------- *)
not_lock_vars ==
    <<is_running, processing_queue, processed_files, worker_thread, workers,
      fs, archive, uploads, closes, pings, ctl, sub, call, seen_keys,
      stop_trace, client_vars, handler_vars, stability_vars, valid_vars,
      scan_vars, dispatch_vars, notify_vars>>

\* Calls one thread makes at most
MaxIncrements == 2

RECURSIVE Total(_, _)
Total(f, S) ==
    IF S = {} THEN 0
    ELSE LET x == CHOOSE y \in S : TRUE
         IN  f[x] + Total(f, S \ {x})

\* Calls of thread t that have returned
Returned_by(t) == Total(incrementers[t].done, Incremented)

\* Thread t calls increment_total() or increment_failed().
IncrementCall(t, counter) ==
    /\ incrementers[t].pc = "idle"
    /\ Returned_by(t) < MaxIncrements
    /\ incrementers' = [incrementers EXCEPT
                          ![t].pc = "acquire", ![t].counter = counter]
    /\ UNCHANGED <<stats, stats_lock, not_lock_vars>>

\* Faulty variant of entering the with block: the lock is taken without
\* waiting for its holder.
LockEnterNoWait(t) ==
    /\ incrementers[t].pc = "acquire"
    /\ stats_lock' = t
    /\ incrementers' = [incrementers EXCEPT ![t].pc = "read"]
    /\ UNCHANGED <<stats, not_lock_vars>>

\* with self._lock: __enter__ acquires the lock once it is free.
LockEnter(t) ==
    /\ incrementers[t].pc = "acquire"
    /\ stats_lock = 0
    /\ stats_lock' = t
    /\ incrementers' = [incrementers EXCEPT ![t].pc = "read"]
    /\ UNCHANGED <<stats, not_lock_vars>>

\* self.<counter> += 1, first half: the attribute is loaded.
LoadCounter(t) ==
    /\ incrementers[t].pc = "read"
    /\ incrementers' = [incrementers EXCEPT
                          ![t].pc = "write",
                          ![t].read = stats[incrementers[t].counter]]
    /\ UNCHANGED <<stats, stats_lock, not_lock_vars>>

\* self.<counter> += 1, second half: the sum is stored.
StoreCounter(t) ==
    /\ incrementers[t].pc = "write"
    /\ stats' = [stats EXCEPT
                   ![incrementers[t].counter] = incrementers[t].read + 1]
    /\ incrementers' = [incrementers EXCEPT ![t].pc = "release"]
    /\ UNCHANGED <<stats_lock, not_lock_vars>>

\* __exit__ releases the lock and the call returns.
LockExit(t) ==
    /\ incrementers[t].pc = "release"
    /\ stats_lock' = 0
    /\ incrementers' =
         [incrementers EXCEPT
            ![t].pc = "idle",
            ![t].done[incrementers[t].counter] = @ + 1]
    /\ UNCHANGED <<stats, not_lock_vars>>

InitStats ==
    /\ InitProcessor
    /\ fs = { Path(f) : f \in FileInfos }
    /\ archive = {}
    /\ InitClientIdle
    /\ InitHandlerIdle
    /\ InitScanIdle
    /\ InitLockIdle
    /\ InitDispatchIdle
    /\ InitNotifierIdle
    /\ InitStabilityIdle
    /\ InitValidIdle

NextStats ==
    \E t \in Incrementers :
        \/ \E counter \in Incremented : IncrementCall(t, counter)
        \/ LockEnter(t)
        \/ LoadCounter(t)
        \/ StoreCounter(t)
        \/ LockExit(t)

SpecStats == InitStats /\ [][NextStats]_vars

(* -------- the observer's dispatch of events to ImmichFileHandler ------ *)
\* Events that wait for dispatch at most
MaxQueued == 2

\* The thread of the one Observer FileWatcher creates: it takes the events
\* of all watched directories from one queue, one at a time, and calls the
\* handler's on_created / on_modified for each.
DispatchThread == 1

\* A file is created or modified in a watched directory: the event is
\* queued for the observer.
Deliver(file_path) ==
    /\ Len(event_queue) < MaxQueued
    /\ event_queue' = Append(event_queue, file_path)
    /\ UNCHANGED <<proc_vars, client_vars, handler_vars, stability_vars,
                   valid_vars, scan_vars, lock_vars, notify_vars>>

\* The observer, back from the handler call of the event before, takes the
\* next event: on_created / on_modified call _handle_file_event(src_path)
\* in the observer's own thread, which runs the membership test.
Dispatch ==
    /\ event_queue # <<>>
    /\ handlers[DispatchThread].pc = "idle"
    /\ event_queue' = Tail(event_queue)
    /\ handlers' =
         [handlers EXCEPT ![DispatchThread] =
            IF Head(event_queue) \in processing_files
            THEN Handler("idle", Head(event_queue), "none", "none", 0,
                         "duplicate")
            ELSE Handler("add", Head(event_queue), "none", "none", 0,
                         "none")]
    /\ UNCHANGED <<processing_files, proc_vars, client_vars, stability_vars,
                   valid_vars, scan_vars, lock_vars, notify_vars>>

InitDispatch ==
    /\ InitProcessor
    /\ fs = { Path(f) : f \in FileInfos }
    /\ archive = {}
    /\ InitClientIdle
    /\ InitHandlerIdle
    /\ InitRestIdle
    /\ InitStabilityIdle
    /\ InitValidIdle

NextDispatch ==
    \/ \E file_path \in Paths : Deliver(file_path)
    \/ Dispatch
    \/ Add(DispatchThread)
    \/ \E stable \in {"true", "false", "raise"} :
           WaitReturns(DispatchThread, stable)
    \/ \E valid \in BOOLEAN, raises \in BOOLEAN :
           FileReady(DispatchThread, valid, raises)
    \/ Finally(DispatchThread)

SpecDispatch == InitDispatch /\ [][NextDispatch]_vars

(* ------------- _calculate_required_stability, sizes in bytes ---------- *)
MiB == 1024 * 1024

\* The largest MIN_STABILITY_WAIT_SIZE_MB and the longest wait configured
MaxMinSizeMb == 2

MaxWait == 3

\* Configurations that pass Config._validate_config: the base wait at least
\* 1, the video wait at least the base wait, the size threshold at least 0.
StabilityConfig(base, video, min_mb) ==
    [file_stability_wait_seconds |-> base,
     file_stability_wait_seconds_video |-> video,
     min_stability_wait_size_mb |-> min_mb]

ValidatedConfigs ==
    { config \in { StabilityConfig(base, video, min_mb) :
                     base \in 1..MaxWait, video \in 1..MaxWait,
                     min_mb \in 0..MaxMinSizeMb } :
        config.file_stability_wait_seconds_video
            >= config.file_stability_wait_seconds }

\* File sizes in bytes at and next to every whole number of MiB
ByteSizes ==
    { k * MiB + d : k \in 0..(MaxMinSizeMb + 1), d \in {-1, 0, 1} } \ {-1}

\* Faulty variant: the extended wait only strictly above the threshold.
CalculateRequiredStabilityStrict(file_size, config) ==
    IF file_size > config.min_stability_wait_size_mb * MiB
    THEN config.file_stability_wait_seconds_video
    ELSE config.file_stability_wait_seconds

\* _calculate_required_stability(file_size): size_mb = file_size / 2^20 is
\* a float division, exact for every size below 2^53 bytes, so that
\* size_mb >= min_stability_wait_size_mb is file_size >= threshold * 2^20.
CalculateRequiredStability(file_size, config) ==
    IF file_size >= config.min_stability_wait_size_mb * MiB
    THEN config.file_stability_wait_seconds_video
    ELSE config.file_stability_wait_seconds

\* The function is asked about a size and about a size no smaller.
RequiredStabilityCalls ==
    /\ probe.answer = <<>>
    /\ probe' = [probe EXCEPT
                   !.answer =
                     <<CalculateRequiredStability(probe.input.file_size,
                                                  probe.input.config),
                       CalculateRequiredStability(probe.input.larger_size,
                                                  probe.input.config)>>]
    /\ UNCHANGED not_valid_vars

InitRequired ==
    /\ InitProcessor
    /\ fs = { Path(f) : f \in FileInfos }
    /\ archive = {}
    /\ InitClientIdle
    /\ InitHandlerIdle
    /\ InitRestIdle
    /\ InitStabilityIdle
    /\ \E file_size \in ByteSizes, larger_size \in ByteSizes,
          config \in ValidatedConfigs :
           /\ file_size <= larger_size
           /\ probe = Probe([file_size |-> file_size,
                             larger_size |-> larger_size,
                             config |-> config], <<>>)

NextRequired == RequiredStabilityCalls

SpecRequired == InitRequired /\ [][NextRequired]_vars

(* -------- _generate_device_asset_id and _get_file_key as text --------- *)
\* The largest captured size in bytes
MaxSizeBytes == 12

\* Text is a sequence of characters.  str() of a non-negative int below 100
Digit(n) == <<"0", "1", "2", "3", "4", "5", "6", "7", "8", "9">>[n + 1]

Str(n) == IF n < 10 THEN <<Digit(n)>> ELSE <<Digit(n \div 10), Digit(n % 10)>>

\* FileInfo.modified_time: the int 0 of a failed stat(), or the float
\* st_mtime with its whole seconds and its first decimal.
ModifiedTime(is_int, whole, tenth) ==
    [is_int |-> is_int, whole |-> whole, tenth |-> tenth]

ModifiedTimes ==
    { ModifiedTime(TRUE, 0, 0) }
    \cup { ModifiedTime(FALSE, whole, tenth) :
             whole \in {1, 2, MaxSizeBytes}, tenth \in {0, 5} }

\* str() of a modified_time: "0" for the int, "2.5" or "12.0" for a float
StrTime(mtime) ==
    IF mtime.is_int THEN Str(mtime.whole)
    ELSE Str(mtime.whole) \o <<".">> \o Str(mtime.tenth)

\* Paths, with underscores and digits in them
PathTexts ==
    { <<"a">>, <<"a", "1">>, <<"a", "_", "1">>, <<"a", "_", "1", "_", "2">>,
      <<"a", "_", "1", "2">> }

\* A FileInfo with what the two functions read
TextInfo(path, size_bytes, modified_time) ==
    [path |-> path, size_bytes |-> size_bytes, modified_time |-> modified_time]

TextInfos ==
    { TextInfo(path, size_bytes, modified_time) :
        path \in PathTexts, size_bytes \in {0, 1, 2, MaxSizeBytes},
        modified_time \in ModifiedTimes }

\* Faulty variant of the format: the three parts run together.
UniqueStringNoSeparator(file_info) ==
    file_info.path \o Str(file_info.size_bytes)
                   \o StrTime(file_info.modified_time)

\* f"{file_info.path}_{file_info.size_bytes}_{file_info.modified_time}"
UniqueString(file_info) ==
    file_info.path \o <<"_">> \o Str(file_info.size_bytes)
                   \o <<"_">> \o StrTime(file_info.modified_time)

\* hashlib.md5(text.encode()).hexdigest(): a function of the text alone,
\* taken to have no collision among the texts that occur.
md5(text) == <<"md5", text>>

\* FileProcessor._get_file_key(file_info)
GetFileKeyText(file_info) == UniqueString(file_info)

\* ImmichClient._generate_device_asset_id(file_info) on the client `self`
GenerateDeviceAssetId(self, file_info) == md5(UniqueString(file_info))

\* Two records' dedup keys are taken, and their identifiers are generated
\* by two client instances.
GenerateCalls ==
    /\ probe.answer = <<>>
    /\ probe' = [probe EXCEPT
                   !.answer = <<GetFileKeyText(probe.input[1]),
                                GetFileKeyText(probe.input[2]),
                                GenerateDeviceAssetId(1, probe.input[1]),
                                GenerateDeviceAssetId(2, probe.input[2])>>]
    /\ UNCHANGED not_valid_vars

InitIdent ==
    /\ InitProcessor
    /\ fs = { Path(f) : f \in FileInfos }
    /\ archive = {}
    /\ InitClientIdle
    /\ InitHandlerIdle
    /\ InitRestIdle
    /\ InitStabilityIdle
    /\ \E f \in TextInfos, g \in TextInfos : probe = Probe(<<f, g>>, <<>>)

NextIdent == GenerateCalls

SpecIdent == InitIdent /\ [][NextIdent]_vars

(* ------------------------------ Notifier ------------------------------ *)
\* Everything that is not the Notifier
not_notify_vars ==
    <<proc_vars, client_vars, handler_vars, stability_vars, valid_vars,
      scan_vars, lock_vars, dispatch_vars>>

\* calls of Notifier methods in one behaviour
MaxNotifyCalls == 4

\* the last reading of time.time()
MaxWall == 3

\* the largest batch_timeout the constructor is given
MaxBatchTimeout == 2

\* __init__(enabled, batch_size, batch_timeout): notifications stay enabled
\* only if _test_notification_capability could create a Notify object
\* (`capable`); otherwise enabled is set to False and
\* _notification_available stays False.
NewNotifier(enabled, capable, batch_timeout) ==
    Notifier(enabled /\ capable, enabled /\ capable, batch_timeout)

\* `if not self.enabled or not self._notification_available: return`
Disabled == ~notifier.enabled \/ ~notifier.notification_available

\* Thread t calls the method api: the enabled test, then on to the `with
\* self._lock`.
Enter(t, api) ==
    /\ callers[t].pc = "idle"
    /\ sent.calls < MaxNotifyCalls
    /\ callers' = [callers EXCEPT
                     ![t] = Caller(IF Disabled THEN "idle" ELSE "lock", api, 0)]
    /\ sent' = [sent EXCEPT
                  !.calls = @ + 1,
                  !.successes = IF api = "notify_upload_success" /\ ~Disabled
                                THEN @ + 1 ELSE @]
    /\ UNCHANGED <<notifier, wall, not_notify_vars>>

NotifyUploadStart(t) == Enter(t, "notify_upload_start")

NotifyUploadSuccess(t) == Enter(t, "notify_upload_success")

ForceNotification(t) == Enter(t, "force_notification")

\* the first statement inside the with block of each method
FirstStatement(api) ==
    IF api = "notify_upload_start" THEN "test_started"
    ELSE IF api = "notify_upload_success" THEN "load_count"
    ELSE "test_count"

\* Faulty variant: the with block is entered without waiting for the lock.
AcquireNoWait(t) ==
    /\ callers[t].pc = "lock"
    /\ notifier' = [notifier EXCEPT !.lock = t]
    /\ callers' = [callers EXCEPT ![t].pc = FirstStatement(callers[t].api)]
    /\ UNCHANGED <<wall, sent, not_notify_vars>>

\* `with self._lock:` blocks until the lock is free
Acquire(t) ==
    /\ callers[t].pc = "lock"
    /\ notifier.lock = 0
    /\ notifier' = [notifier EXCEPT !.lock = t]
    /\ callers' = [callers EXCEPT ![t].pc = FirstStatement(callers[t].api)]
    /\ UNCHANGED <<wall, sent, not_notify_vars>>

\* notify_upload_start: `if not self._upload_session_started:`
TestSessionStarted(t) ==
    /\ callers[t].pc = "test_started"
    /\ callers' = [callers EXCEPT
                     ![t].pc = IF notifier.upload_session_started
                               THEN "release" ELSE "set_started"]
    /\ UNCHANGED <<notifier, wall, sent, not_notify_vars>>

\* self._upload_session_started = True and the start of the thread that
\* sends "Uploading assets..."
SendStartNotification(t) ==
    /\ callers[t].pc = "set_started"
    /\ notifier' = [notifier EXCEPT !.upload_session_started = TRUE]
    /\ sent' = [sent EXCEPT !.started = @ + 1]
    /\ callers' = [callers EXCEPT ![t].pc = "release"]
    /\ UNCHANGED <<wall, not_notify_vars>>

\* notify_upload_success: `self.upload_count += 1`, the read
LoadUploadCount(t) ==
    /\ callers[t].pc = "load_count"
    /\ callers' = [callers EXCEPT ![t].pc = "store_count",
                                  ![t].read = notifier.upload_count]
    /\ UNCHANGED <<notifier, wall, sent, not_notify_vars>>

\* ... and the write
StoreUploadCount(t) ==
    /\ callers[t].pc = "store_count"
    /\ notifier' = [notifier EXCEPT !.upload_count = callers[t].read + 1]
    /\ callers' = [callers EXCEPT ![t].pc = "test_time"]
    /\ UNCHANGED <<wall, sent, not_notify_vars>>

\* current_time = time.time(); should_notify = (current_time -
\* self.last_notification_time) >= self.batch_timeout
ShouldNotify ==
    wall - notifier.last_notification_time >= notifier.batch_timeout

TestTime(t) ==
    /\ callers[t].pc = "test_time"
    /\ callers' = [callers EXCEPT
                     ![t].pc = IF ShouldNotify THEN "send" ELSE "release"]
    /\ UNCHANGED <<notifier, wall, sent, not_notify_vars>>

\* force_notification: `if self.upload_count > 0:`
TestPending(t) ==
    /\ callers[t].pc = "test_count"
    /\ callers' = [callers EXCEPT
                     ![t].pc = IF notifier.upload_count > 0
                               THEN "send" ELSE "release"]
    /\ UNCHANGED <<notifier, wall, sent, not_notify_vars>>

\* Faulty variant: the batch is announced and upload_count is left as it is.
SendNotificationKeepsCount(t) ==
    /\ callers[t].pc = "send"
    /\ IF notifier.upload_count = 0
       THEN UNCHANGED <<notifier, sent>>
       ELSE /\ notifier' = [notifier EXCEPT !.last_notification_time = wall]
            /\ sent' = [sent EXCEPT
                          !.batches = Append(@, notifier.upload_count),
                          !.last_batch_at = wall]
    /\ callers' = [callers EXCEPT ![t].pc = "release"]
    /\ UNCHANGED <<wall, not_notify_vars>>

\* _send_notification: nothing for a count of 0; otherwise the count is
\* taken and reset, last_notification_time is set, and the thread that sends
\* "N files uploaded to Immich" is started.
SendNotification(t) ==
    /\ callers[t].pc = "send"
    /\ IF notifier.upload_count = 0
       THEN UNCHANGED <<notifier, sent>>
       ELSE /\ notifier' = [notifier EXCEPT !.upload_count = 0,
                                            !.last_notification_time = wall]
            /\ sent' = [sent EXCEPT
                          !.batches = Append(@, notifier.upload_count),
                          !.last_batch_at = wall]
    /\ callers' = [callers EXCEPT ![t].pc = "release"]
    /\ UNCHANGED <<wall, not_notify_vars>>

\* the end of the with block
Release(t) ==
    /\ callers[t].pc = "release"
    /\ notifier' = [notifier EXCEPT !.lock = IF @ = t THEN 0 ELSE @]
    /\ callers' = [callers EXCEPT ![t].pc = "idle"]
    /\ UNCHANGED <<wall, sent, not_notify_vars>>

\* time passes
Tick ==
    /\ wall < MaxWall
    /\ wall' = wall + 1
    /\ UNCHANGED <<notifier, callers, sent, not_notify_vars>>

InitNotifier ==
    /\ InitProcessor
    /\ fs = { Path(f) : f \in FileInfos }
    /\ archive = {}
    /\ InitClientIdle
    /\ InitHandlerIdle
    /\ InitStabilityIdle
    /\ InitValidIdle
    /\ InitScanIdle
    /\ InitLockIdle
    /\ InitDispatchIdle
    /\ \E enabled \in BOOLEAN, capable \in BOOLEAN,
          batch_timeout \in 1..MaxBatchTimeout :
           notifier = NewNotifier(enabled, capable, batch_timeout)
    /\ callers = [t \in NotifierThreads |-> Caller("idle", "none", 0)]
    /\ wall = 0
    /\ sent = Sent(0, <<>>, NoTime, 0, 0)

NextNotifier ==
    \/ \E t \in NotifierThreads :
         \/ NotifyUploadStart(t)
         \/ NotifyUploadSuccess(t)
         \/ ForceNotification(t)
         \/ Acquire(t)
         \/ TestSessionStarted(t)
         \/ SendStartNotification(t)
         \/ LoadUploadCount(t)
         \/ StoreUploadCount(t)
         \/ TestTime(t)
         \/ TestPending(t)
         \/ SendNotification(t)
         \/ Release(t)
    \/ Tick

SpecNotifier == InitNotifier /\ [][NextNotifier]_vars

(* ------------------------------ claims -------------------------------- *)
\* A step that is the n-th call, of method `api`.
IsCall(api) == call'.n = call.n + 1 /\ call'.api = api

\* C1: a process_file call on a running processor whose key was already
\* passed to an earlier call is skipped: skipped_files goes up by one,
\* nothing is enqueued and the call returns without counting total_files.
C1_SecondSubmitSkipped ==
    [][(/\ IsCall("process_file")
        /\ is_running
        /\ get_file_key(call'.file_info) \in seen_keys)
       => (/\ stats' = increment_skipped(stats)
           /\ processing_queue' = processing_queue
           /\ sub' = "idle")]_vars

\* C2: upload_asset is invoked at most once for every dedup key.
C2_UploadAtMostOncePerKey == \A k \in Keys : uploads[k] <= 1

\* the worker threads that are inside _worker_loop
Alive == { w \in Workers : workers[w].pc \notin {"unborn", "exited"} }

\* the worker threads that are inside upload_asset
Uploading == { w \in Workers : workers[w].pc = "upload" }

\* C3: at most one worker consumes the queue and at most one upload_asset
\* call is in flight.
C3_OneWorkerOneUpload == Cardinality(Alive) <= 1 /\ Cardinality(Uploading) <= 1

\* C4: process_file on a processor that is not running changes neither the
\* queue nor processed_files nor any counter, and returns at once.
C4_NotRunningIsNoOp ==
    [][(IsCall("process_file") /\ ~is_running)
       => (/\ processing_queue' = processing_queue
           /\ processed_files' = processed_files
           /\ stats' = stats
           /\ sub' = "idle")]_vars

\* C4 witness: process_file was called after a completed stop() and the
\* processor has not been started again.
C4_Witness ==
    /\ call.api = "process_file"
    /\ ~is_running
    /\ ctl = "idle"
    /\ closes >= 1

\* C5: start() on a stopped processor whose test_connection() answers
\* false leaves is_running false and creates no worker thread; start() on
\* a running processor returns without calling test_connection() and
\* without creating a worker thread.
C5_StartFailsFastAndIsIdempotent ==
    [][IsCall("start")
       => /\ (~is_running /\ call'.connected = "no")
               => (/\ ~is_running'
                   /\ pings' = pings + 1
                   /\ workers' = workers
                   /\ worker_thread' = worker_thread)
          /\ is_running
               => (/\ is_running'
                   /\ pings' = pings
                   /\ workers' = workers
                   /\ worker_thread' = worker_thread)]_vars

\* C5 witness: one start() failed its connection test, one succeeded, and
\* the last call was a start() on the running processor.
C5_Witness ==
    /\ call.api = "start"
    /\ call.connected = "untested"
    /\ is_running
    /\ pings = 2
    /\ worker_thread = 1

\* the effects of stop() on a running processor, in the order of the code
StopOrder == <<"is_running=False", "put(None)", "join", "close", "summary">>

\* C6: stop() on a running processor sets is_running false, then enqueues
\* the sentinel, then joins the worker (it has exited, or the join timed
\* out), then closes the client once, then logs the summary and returns
\* with is_running false; stop() on a processor that is not running
\* changes nothing.
C6_StopOrder ==
    [][/\ (IsCall("stop") /\ ~is_running)
            => UNCHANGED <<is_running, processing_queue, closes, ctl,
                           stop_trace, workers>>
       /\ (is_running /\ ~is_running')
            => (IsCall("stop") /\ stop_trace' = <<"is_running=False">>)
       /\ (processing_queue' # processing_queue
             /\ processing_queue' = Append(processing_queue, None))
            => (stop_trace' = <<"is_running=False", "put(None)">>)
       /\ (closes' # closes)
            => (/\ closes' = closes + 1
                /\ stop_trace' = <<"is_running=False", "put(None)", "join", "close">>)
       /\ (stop_trace' # stop_trace)
            => (/\ stop_trace' = SubSeq(StopOrder, 1, Len(stop_trace'))
                /\ Len(stop_trace') = IF IsCall("stop") THEN 1
                                      ELSE Len(stop_trace) + 1
                /\ ~is_running'
                /\ Len(stop_trace') = 3
                     => \/ workers[worker_thread].pc = "exited"
                        \/ Blocking(worker_thread)
                /\ (ctl' = "idle") <=> (stop_trace' = StopOrder))]_vars

\* C6 witness: a stop() has run to its end.
C6_Witness ==
    /\ ctl = "idle"
    /\ stop_trace = StopOrder
    /\ ~is_running
    /\ closes = 1

\* C7: a file leaves its watch directory only by the move of a worker whose
\* upload_asset call returned success for that file's record; when
\* upload_asset returns a failure (or raises) the worker counts one failed
\* upload, moves and deletes nothing, enqueues nothing, calls upload_asset
\* no more and is back at the top of its loop with no record in hand.
C7_ArchiveOnlyAfterSuccess ==
    [][/\ (fs' # fs \/ archive' # archive)
            => \E w \in Workers :
                   /\ workers[w].pc = "archive"
                   /\ workers[w].upload_result = "success"
                   /\ workers'[w].pc = "loop"
                   /\ fs' = fs \ {Path(workers[w].file_info)}
       /\ \A w \in Workers :
            (workers[w].pc = "upload" /\ workers'[w] # workers[w]
               /\ workers'[w].upload_result # "success")
            => (/\ stats' = increment_failed(stats)
                /\ UNCHANGED <<fs, archive, processing_queue, uploads>>
                /\ workers'[w] = [pc |-> "loop", file_info |-> None,
                                  upload_result |-> "none"])]_vars

\* C7 witness: one upload failed and nothing was moved for it, another
\* succeeded and its file was archived.
C7_Witness ==
    /\ stats.failed_uploads = 1
    /\ stats.archived_files = 1
    /\ Cardinality(fs) = Cardinality({ Path(f) : f \in FileInfos }) - 1

\* C8: when upload_asset returned success the upload is counted; when the
\* move then fails (nothing enters the archive) no counter changes, the
\* source file stays and the worker is back at the top of its loop.
C8_ArchiveFailureKeepsSuccess ==
    [][\A w \in Workers :
         /\ (workers[w].pc = "upload" /\ workers'[w].pc = "archive")
              => stats' = increment_success(stats)
         /\ (workers[w].pc = "archive" /\ workers'[w] # workers[w]
               /\ archive' = archive)
              => (/\ stats' = stats
                  /\ fs' = fs
                  /\ workers'[w].pc = "loop")]_vars

\* C8 witness: an upload was counted successful, its archiving failed, and
\* the file is still in place.
C8_Witness ==
    /\ stats.successful_uploads = 1
    /\ stats.archived_files = 0
    /\ stats.failed_uploads = 0
    /\ \A w \in Workers : workers[w].pc \in {"unborn", "get"}
    /\ fs = { Path(f) : f \in FileInfos }

\* skipped + successful + failed
Terminal(s) == s.skipped_files + s.successful_uploads + s.failed_uploads

\* C10: a worker with a record in hand counts it exactly once in skipped,
\* successful or failed (when it finds it invalid, or when upload_asset
\* returns or raises), counts nothing more while archiving, and always
\* comes back to the top of its loop: no outcome ends the thread.
C10_OneTerminalCounterPerRecord ==
    [][\A w \in Workers :
         LET a == workers[w]
             b == workers'[w] IN
         (a # b) =>
           /\ a.pc = "validate"
                => \/ b.pc = "loop" /\ stats' = increment_skipped(stats)
                   \/ b.pc = "upload" /\ stats' = stats
           /\ a.pc = "upload"
                => \/ b.pc = "loop" /\ stats' = increment_failed(stats)
                   \/ b.pc = "archive" /\ stats' = increment_success(stats)
           /\ a.pc = "archive"
                => b.pc = "loop" /\ Terminal(stats') = Terminal(stats)]_vars

\* C10 witness: three records were enqueued; the worker skipped one as
\* invalid, failed one, uploaded one, and is waiting for the next.
C10_Witness ==
    /\ stats.total_files = 3
    /\ stats.skipped_files = 1
    /\ stats.failed_uploads = 1
    /\ stats.successful_uploads = 1
    /\ \E w \in Workers : workers[w].pc = "get"

\* C9: a successful _archive_file moves the file to a name that was not in
\* the archive directory: its own name when that is free, else
\* <stem>_N<suffix> for the smallest N >= 1 that is free; the names that
\* were there stay, so no archived file is overwritten.
C9_ArchiveTargetIsFree ==
    [][(fs' # fs)
       => \E p \in fs :
            /\ fs' = fs \ {p}
            /\ \E target \in archive' :
                 /\ target \notin archive
                 /\ archive' = archive \cup {target}
                 /\ IF p[2] \notin archive
                    THEN target = p[2]
                    ELSE \E n \in 1..(Cardinality(archive) + 1) :
                           /\ target = ConflictName(p[2], n)
                           /\ \A m \in 1..(n - 1) :
                                ConflictName(p[2], m) \in archive]_vars

\* C9 witness: the three files called x.jpg were archived into an empty
\* archive directory, which now holds x.jpg, x_1.jpg and x_2.jpg.
C9_Witness ==
    /\ archive = {XJpg, X1Jpg, X2Jpg}
    /\ fs = { Path(f) : f \in { g \in ArchiveInputs : g.name # XJpg } }

(* ---------------------- claims on ImmichClient ------------------------ *)
\* `api` has returned and no other call was made since.
Returned(api) == client.pc = "idle" /\ client.api = api /\ result.api = api

\* C11: for a valid record whose request completes with HTTP status s,
\* upload_asset returns success with the asset id of the body's 'id' for
\* s in {200, 201} (asset id None when the body is not parsable JSON),
\* success with asset id None for 409, failure for 400 and 401, and failure
\* with the status code in the message for every other status.
C11_StatusDecidesResult ==
    (Returned("upload_asset") /\ session.attempts > 0
                              /\ session.raised = "none")
    => LET st == session.outcome.status
       IN  /\ st \in {200, 201} =>
                /\ result.success
                /\ result.asset_id = BodyId(session.outcome.body)
           /\ st = 409 => result.success /\ result.asset_id = "None"
           /\ st \in {400, 401} => ~result.success
           /\ st \notin {200, 201, 400, 401, 409} =>
                ~result.success /\ result.message.status = st

\* C12: when pre-upload validation fails (the record is not valid, or it is
\* a video, integrity verification is on and the structural check fails),
\* upload_asset returns a failure result and session.post is never called.
C12_NoRequestWhenValidationFails ==
    (Returned("upload_asset")
        /\ ValidationFails(client.input, client.verify_video_integrity))
    => /\ ~result.success
       /\ session.post_calls = 0
       /\ session.attempts = 0

\* upload_asset has returned for a valid video whose structural check failed
C12_Witness ==
    /\ Returned("upload_asset")
    /\ client.input.valid
    /\ client.input.video
    /\ ~client.input.video_ok
    /\ client.verify_video_integrity
    /\ ~result.success

\* The text of the exception raised inside the upload_asset call that has
\* returned ("": none was raised): by session.post, by open(), or by
\* result_data.get on a body that is not an object.
ExceptionText ==
    IF session.raised # "none" THEN session.raised
    ELSE IF session.attempts = 0
    THEN IF ~ValidationFails(client.input, client.verify_video_integrity)
            /\ ~client.input.readable
         THEN "FileNotFoundError" ELSE ""
    ELSE IF session.outcome.status \in {200, 201}
            /\ session.outcome.body = "not an object"
    THEN "AttributeError" ELSE ""

\* C13: upload_asset never raises: a network error, a timeout or any other
\* exception during validation or the request becomes a result with
\* success false, asset id None and a message holding the error text.
C13_NeverRaises ==
    /\ result.raised = "none"
    /\ (Returned("upload_asset") /\ ExceptionText # "")
       => /\ ~result.success
          /\ result.asset_id = "None"
          /\ result.message.error = ExceptionText

\* upload_asset has returned after session.post raised on a timed-out read
C13_Witness ==
    /\ Returned("upload_asset")
    /\ session.raised = "ReadTimeout"
    /\ ~result.success
    /\ result.message.text = "Network error: "

\* C14: the upload POST is retried when the response status is 429, 500,
\* 502, 503 or 504: such a response reaches upload_asset's caller only as
\* the failure of a request whose retries (3) are used up, that is, after
\* 1 + 3 attempts.
C14_TransientStatusIsRetried ==
    (client.api = "upload_asset" /\ client.pc = "respond"
        /\ session.outcome.kind = "response"
        /\ session.outcome.status \in status_forcelist)
    => session.attempts = RetryTotal + 1

(* -------------------- claims on ImmichFileHandler --------------------- *)
\* Threads inside _wait_for_file_stability for path p
Checking(p) ==
    { t \in Handlers : handlers[t].pc = "wait" /\ handlers[t].file_path = p }

\* C15: at no time are two stability checks in progress for the same
\* absolute path, whatever the interleaving of _handle_file_event calls on
\* different threads.
C15_OneCheckPerPath == \A p \in Paths : Cardinality(Checking(p)) <= 1

\* Threads that have inserted their path and not yet run `finally`
Inserted(p) ==
    { t \in Handlers : /\ handlers[t].file_path = p
                       /\ handlers[t].pc \in {"wait", "validate", "finally"} }

\* C16: a path is removed from processing_files when the handler that
\* inserted it finishes, on every exit path; hence a path is in
\* processing_files only while some call that inserted it is executing; and
\* an event discarded as a duplicate leaves processing_files as it is.
C16_RemovedOnEveryExit ==
    /\ [](\A p \in processing_files : Inserted(p) # {})
    /\ [][\A t \in Handlers :
            /\ (handlers[t].pc = "finally" /\ handlers'[t].pc = "idle")
               => handlers[t].file_path \notin processing_files'
            /\ (handlers'[t] # handlers[t] /\ handlers'[t].exit = "duplicate")
               => processing_files' = processing_files]_vars

\* A handler has finished after on_file_ready raised, another one after a
\* check that raised, and nothing is left in the set.
C16_Witness ==
    /\ \E t \in Handlers : /\ handlers[t].pc = "idle"
                           /\ handlers[t].exit = "callback raised"
    /\ \E t \in Handlers : /\ handlers[t].pc = "idle"
                           /\ handlers[t].exit = "check raised"
    /\ processing_files = {}

\* C17: per event the ready callback is invoked at most once, and only
\* when _wait_for_file_stability returned true and the FileInfo built
\* afterwards is valid; not when the check returned false or the file is
\* invalid.
C17_ReadyOnlyIfStableAndValid ==
    \A t \in Handlers :
        /\ handlers[t].ready <= 1
        /\ handlers[t].ready = 1 =>
              handlers[t].stable = "true" /\ handlers[t].valid = "yes"
        /\ (handlers[t].pc \in {"finally", "idle"}
              /\ handlers[t].exit \in {"not stable", "check raised", "invalid"})
           => handlers[t].ready = 0

\* One event ended with the callback invoked, another one ended on an
\* invalid file without it.
C17_Witness ==
    /\ \E t \in Handlers : /\ handlers[t].exit = "ready"
                           /\ handlers[t].ready = 1
    /\ \E t \in Handlers : /\ handlers[t].exit = "invalid"
                           /\ handlers[t].stable = "true"
                           /\ handlers[t].ready = 0

(* ----------------- claims on _wait_for_file_stability ----------------- *)
\* The statements of one poll cycle: the sleep, the exists test, the stat,
\* and the hash and comparison.
PollCycle == {"sleep", "exists", "stat", "compare"}

\* C18: if the file exists when _wait_for_file_stability starts and is
\* deleted before the check returns, at whatever point of the poll cycle,
\* the check returns true.
C18_DeletionIsStable ==
    (check.result # "none" /\ observed.existed
                           /\ observed.deleted_at \in PollCycle)
    => check.result = "true"

\* C19: for a file that keeps existing, the check returns true only when
\* the polls have observed the same size (and, above 10 MiB, the same hash)
\* for at least the required stability duration; a poll that observes a
\* change discards the timer, and the timer starts again only at a poll
\* that observes no change.
C19_StableForRequiredDuration ==
    /\ []((check.result = "true" /\ observed.by = "stable")
          => /\ observed.unchanged_since # NoTime
             /\ now - observed.unchanged_since
                  >= calculate_required_stability(check.current_size))
    /\ [][/\ (check.pc = "compare" /\ observed'.last # observed.last)
             => check'.stable_start_time = NoTime
          /\ (check.stable_start_time = NoTime
                /\ check'.stable_start_time # NoTime)
             => /\ check.pc = "compare"
                /\ observed'.last = observed.last
                /\ check'.stable_start_time = now]_vars

\* The check returned true by stability after a poll had discarded the
\* timer once.
C19_Witness ==
    /\ check.result = "true"
    /\ observed.by = "stable"
    /\ observed.changed_seen
    /\ file.exists

(* ---------------------- claims on FileInfo.is_valid ------------------- *)
\* C20: is_valid(config) returns true if and only if the path exists and
\* is a regular file, size_bytes <= max_file_size_mb * 1024 * 1024, the
\* file's extension compared case-insensitively is in the configured
\* supported-extension set, and the resolved path is neither the resolved
\* archive directory nor inside it at any depth.
C20_IsValidIff ==
    probe.answer # "none" =>
       (probe.answer = "true" <=>
          /\ probe.input.kind = "file"
          /\ probe.input.size_bytes <= max_file_size_mb * 1024 * 1024
          /\ \E e \in probe.input.supported_extensions :
                 Lower(e) = Extension(probe.input.name)
          /\ probe.input.resolved # archive_directory_resolved
          /\ \A n \in 1..Len(probe.input.resolved) :
                 SubSeq(probe.input.resolved, 1, n) # archive_directory_resolved)

(* ------------------- claims on the captured FileInfo ------------------ *)
\* C21: a FileInfo captured while the file did not exist (size_bytes = 0
\* and modified_time = 0) fails is_valid at every later validation, also
\* when a file has appeared at the path since the capture.
C21_MissingAtCaptureNeverValid ==
    (probe.input.captured = "missing" /\ probe.answer # "none")
    => /\ probe.input.size_bytes = 0
       /\ probe.input.modified_time = 0
       /\ probe.answer = "false"

(* ----------------------- claims on the initial scan ------------------- *)
\* A file the scan should hand over: it is still a regular file, its
\* extension is supported, it is within the size limit and outside the
\* archive directory.
ScanValid(input) ==
    /\ input.kind = "file"
    /\ Lower(Extension(input.name)) \in input.supported_extensions
    /\ input.size_bytes <= FileSizeLimitBytes
    /\ ~ is_in_archive_directory(input.resolved)

Readied(items) ==
    LET valid == SelectSeq(items, LAMBDA item : ScanValid(item.input))
    IN  [i \in 1..Len(valid) |-> valid[i].input]

\* C22: the initial scan invokes the ready callback, in listing order, for
\* exactly the regular files it enumerates that are valid, and for no
\* invalid file; no stability check is started for it.
C22_ScanReadiesExactlyValidFiles ==
    /\ scan.ready = Readied(scan.enumerated)
    /\ check = CheckIdle
    /\ observed = NothingObserved

\* The scan completed having handed over a file and having passed over an
\* invalid one.
C22_Witness ==
    /\ scan.pc = "done"
    /\ scan.ready # <<>>
    /\ \E i \in 1..Len(scan.enumerated) :
           ~ ScanValid(scan.enumerated[i].input)

(* ---------------------- claims on ProcessingStats --------------------- *)
\* Calls of the increment method of counter c that have returned, and
\* those that have stored their sum and not yet returned
CallsReturned(c) ==
    Total([t \in Incrementers |-> incrementers[t].done[c]], Incrementers)

CallsStored(c) ==
    Cardinality({ t \in Incrementers :
                    /\ incrementers[t].pc = "release"
                    /\ incrementers[t].counter = c })

\* C23: ProcessingStats loses no update: under every interleaving of
\* increment calls from several threads each counter equals the number of
\* calls of its increment method that have stored their sum, and so, once
\* no call is in progress, the number of calls made.
C23_NoLostUpdate ==
    \A c \in Incremented : stats[c] = CallsReturned(c) + CallsStored(c)

\* Two threads have both incremented the same counter, and every call has
\* returned.
C23_Witness ==
    /\ \A t \in Incrementers : incrementers[t].pc = "idle"
    /\ \E c \in Incremented :
           /\ \A t \in Incrementers : incrementers[t].done[c] >= 1
           /\ stats[c] >= MaxIncrementers

(* -------------------- claims on the worker, continued ----------------- *)
\* C24: whenever upload_asset has been called for a record, the record's
\* dedup key is in processed_files: the key is there when the call is made,
\* and no step (an upload that succeeds, fails or raises included) takes a
\* key out of the set.
C24_KeyMarkedBeforeUpload ==
    [][/\ \A k \in Keys : uploads'[k] > 0 => k \in processed_files'
       /\ processed_files \subseteq processed_files']_vars

\* C24 witness: upload_asset was called for one key only, the call failed
\* or raised, the worker has moved on, and the key is still marked.
C24_Witness ==
    /\ Cardinality({ k \in Keys : uploads[k] > 0 }) = 1
    /\ stats.failed_uploads = 1
    /\ stats.successful_uploads = 0
    /\ \A w \in Workers : workers[w].pc \notin {"upload", "archive"}
    /\ \A k \in Keys : uploads[k] > 0 => k \in processed_files

(* ---------------------- claims on event dispatch ---------------------- *)
\* C25: a stability check in progress for one path does not hold up the
\* dispatcher: while _wait_for_file_stability runs for path a, an event
\* delivered for another path b can be dispatched and start its own check
\* without waiting for a's check to return.
C25_CheckDoesNotBlockDispatch ==
    \A a, b \in Paths :
        (/\ a # b
         /\ handlers[DispatchThread].pc = "wait"
         /\ handlers[DispatchThread].file_path = a
         /\ event_queue # <<>>
         /\ Head(event_queue) = b)
        => ENABLED Dispatch

(* ------------------ claims on the stability check, continued ---------- *)
\* C26: an I/O error in the polling loop, at stat() or at the read for the
\* content hash, makes _wait_for_file_stability return false: a file over
\* 10 MiB that stays in place and whose content could not be read for
\* hashing at some poll is never reported stable.
C26_IOErrorReturnsFalse ==
    /\ observed.by = "stat failed" => check.result = "false"
    /\ (/\ observed.hash_failed
        /\ observed.deleted_at = "never"
        /\ check.result # "none")
         => check.result = "false"

\* C28: when the path does not exist at the moment the check starts,
\* _wait_for_file_stability returns false from its entry test: no stat, no
\* sleep and no poll has happened, and the check returns nothing else for
\* such a path.
C28_AbsentAtStartReturnsFalse ==
    /\ observed.by = "absent at start"
         => (/\ check = [CheckIdle EXCEPT !.result = "false"]
             /\ now = 0
             /\ ~ file.exists)
    /\ (check.result # "none" /\ ~ observed.existed)
         => (check.result = "false" /\ observed.by = "absent at start")

\* C28 witness: a check on a missing path has returned.
C28_Witness ==
    /\ ~ observed.existed
    /\ observed.by = "absent at start"
    /\ check.pc = "idle"
    /\ check.result = "false"

(* ------------------ claims on stop() and the worker ------------------- *)
\* the worker has taken a record from the queue and not yet finished it
InHand(w) == workers[w].pc \in {"validate", "upload", "archive"}

\* C27: a stop() issued while the worker has a record in hand does not cut
\* the record short: no step of stop() touches the worker, the worker's
\* next steps take the record through validation, upload and (on success)
\* archival with exactly one terminal counter going up by one, and the
\* worker ends only at the top of its loop or at the queue, with no record
\* in hand.
C27_StopDoesNotCutRecordShort ==
    [][\A w \in Workers :
         /\ (InHand(w) /\ ~is_running')
              => \/ workers'[w] = workers[w]
                 \/ /\ workers[w].pc = "validate"
                    /\ \/ /\ workers'[w].pc = "upload"
                          /\ workers'[w].file_info = workers[w].file_info
                          /\ Terminal(stats') = Terminal(stats)
                       \/ /\ workers'[w].pc = "loop"
                          /\ Terminal(stats') = Terminal(stats) + 1
                 \/ /\ workers[w].pc = "upload"
                    /\ Terminal(stats') = Terminal(stats) + 1
                    /\ \/ /\ workers'[w].pc = "archive"
                          /\ workers'[w].file_info = workers[w].file_info
                       \/ workers'[w].pc = "loop"
                 \/ /\ workers[w].pc = "archive"
                    /\ workers'[w].pc = "loop"
                    /\ Terminal(stats') = Terminal(stats)
         /\ (workers[w].pc # "exited" /\ workers'[w].pc = "exited")
              => /\ workers[w].pc \in {"loop", "get"}
                 /\ workers[w].file_info = None
                 /\ \/ ~is_running
                    \/ (processing_queue # <<>>
                          /\ Head(processing_queue) = None)]_vars

\* C27 witness: stop() has set is_running false, queued the sentinel and
\* given up its join while the worker, past a successful upload that was
\* counted, is archiving the record.
C27_Witness ==
    /\ ~is_running
    /\ ctl = "close"
    /\ workers[worker_thread].pc = "archive"
    /\ workers[worker_thread].upload_result = "success"
    /\ stats.successful_uploads = 1
    /\ processing_queue # <<>>

(* --------------- claims on the required stability duration ------------ *)
\* C29: the required duration for a file of s bytes is
\* file_stability_wait_seconds_video when s / 2^20 is at least
\* min_stability_wait_size_mb and file_stability_wait_seconds otherwise,
\* and under a validated configuration it does not decrease as s grows.
C29_RequiredStabilityBySize ==
    probe.answer # <<>> =>
        LET config == probe.input.config
            Expected(s) ==
                IF s \div MiB >= config.min_stability_wait_size_mb
                THEN config.file_stability_wait_seconds_video
                ELSE config.file_stability_wait_seconds
        IN  /\ probe.answer[1] = Expected(probe.input.file_size)
            /\ probe.answer[2] = Expected(probe.input.larger_size)
            /\ probe.answer[1] <= probe.answer[2]

\* C29 witness: a size just below the threshold got the base wait and the
\* size at the threshold the longer video wait.
C29_Witness ==
    /\ probe.answer # <<>>
    /\ probe.input.config.min_stability_wait_size_mb > 0
    /\ probe.input.file_size + 1 = probe.input.larger_size
    /\ probe.input.larger_size
         = probe.input.config.min_stability_wait_size_mb * MiB
    /\ probe.answer[1] = probe.input.config.file_stability_wait_seconds
    /\ probe.answer[2] = probe.input.config.file_stability_wait_seconds_video
    /\ probe.answer[1] < probe.answer[2]

(* ---------------- claims on the device asset identifier --------------- *)
\* C30: the device asset identifier depends on (path, size_bytes,
\* modified_time) only: two records with the same triple get the same
\* identifier, also from different client instances, records that differ
\* in path, size or modification time get different identifiers, and two
\* records have equal dedup keys exactly when they have equal identifiers.
C30_IdentifierIsFunctionOfTriple ==
    probe.answer # <<>> =>
        /\ (probe.input[1] = probe.input[2])
             <=> (probe.answer[3] = probe.answer[4])
        /\ (probe.answer[1] = probe.answer[2])
             <=> (probe.answer[3] = probe.answer[4])

\* C30 witness: two records whose identifiers differ although the path of
\* one ends in what could be read as the other's size.
C30_Witness ==
    /\ probe.answer # <<>>
    /\ probe.input[1].path = <<"a", "1">>
    /\ probe.input[1].size_bytes = 2
    /\ probe.input[2].path = <<"a">>
    /\ probe.input[2].size_bytes = MaxSizeBytes
    /\ probe.input[1].modified_time = probe.input[2].modified_time
    /\ probe.answer[3] # probe.answer[4]

(* ----------------- claims on counters, restart and close -------------- *)
\* C32: successful_uploads + failed_uploads never exceeds total_files: no
\* record is counted as uploaded or failed before its submission has been
\* counted in total_files.
C32_OutcomesWithinTotal ==
    stats.successful_uploads + stats.failed_uploads <= stats.total_files

\* C34: after a stop() and a successful start() a worker stays alive and
\* consumes the queue: while the processor is running and no stop() is
\* under way, the worker thread of the latest start() has not ended, so no
\* sentinel left by the earlier stop() has made it exit.
C34_WorkerAliveAfterRestart ==
    (is_running /\ ctl = "idle" /\ worker_thread # 0)
    => workers[worker_thread].pc # "exited"

\* C35: stop() never closes the upload client while an upload_asset call
\* is in flight: whenever immich_client.close() runs, the worker has
\* already left its loop.
C35_CloseOnlyAfterWorkerExit ==
    [][closes' # closes
       => /\ workers[worker_thread].pc = "exited"
          /\ \A w \in Workers : workers[w].pc # "upload"]_vars

\* A record of the queue that has a sentinel behind it: it was in the queue
\* when stop() put the sentinel (nothing is queued while is_running is false).
LeftBehind(i) ==
    /\ processing_queue[i] # None
    /\ \E j \in (i + 1)..Len(processing_queue) : processing_queue[j] = None

\* the step takes the head record off the queue
RecordDequeued ==
    /\ processing_queue # <<>>
    /\ Head(processing_queue) # None
    /\ processing_queue' = Tail(processing_queue)

ProcessFileCalled(file_info) ==
    /\ call'.n = call.n + 1
    /\ call'.api = "process_file"
    /\ call'.file_info = file_info

Drained ==
    /\ processing_queue = <<>>
    /\ \A w \in Workers : ~InHand(w)

\* C33: with stop() never called and a fairly scheduled worker, the record
\* at the head of the queue is eventually the one the worker validates, the
\* processor eventually has nothing queued and nothing in the worker's hand,
\* and between dequeue and the return to the loop exactly one of skipped,
\* successful and failed is counted for the record.
C33_AcceptedRecordReachesOneOutcome ==
    /\ \A file_info \in FileInfos :
          (processing_queue # <<>> /\ Head(processing_queue) = file_info)
          ~> (\E w \in Workers : /\ workers[w].pc = "validate"
                                 /\ workers[w].file_info = file_info)
    /\ is_running ~> Drained
    /\ [][\A w \in Workers :
            (InHand(w) /\ workers'[w] # workers[w])
            => LET counted == Terminal(stats') - Terminal(stats) IN
               /\ workers[w].pc = "validate"
                  => \/ workers'[w].pc = "loop" /\ counted = 1
                     \/ workers'[w].pc = "upload" /\ counted = 0
               /\ workers[w].pc = "upload"
                  => /\ workers'[w].pc \in {"archive", "loop"}
                     /\ counted = 1
               /\ workers[w].pc = "archive"
                  => workers'[w].pc = "loop" /\ counted = 0]_vars

\* two records were accepted, one upload succeeded and one failed, and
\* nothing is left in the queue or in the worker's hand
C33_Witness ==
    /\ is_running
    /\ Drained
    /\ sub = "idle"
    /\ stats.total_files = 2
    /\ stats.successful_uploads = 1
    /\ stats.failed_uploads = 1

(* ------------------- claims on the end of the check ------------------- *)
\* the check is asleep and the clock of the model has reached its bound
ClockOut == check.pc = "sleep" /\ now = MaxClock

\* the handler has returned from a True check and the path is out of
\* processing_files
ReturnedStable ==
    /\ check.result = "true"
    /\ handlers[EventThread].pc = "idle"
    /\ handlers[EventThread].stable = "true"
    /\ EventPath \notin processing_files

CallersIdle == \A t \in NotifierThreads : callers[t].pc = "idle"

\* C31: over the life of one Notifier at most one "upload started"
\* notification thread is started, however many threads call
\* notify_upload_start and however their steps interleave.
C31_AtMostOneStartNotification ==
    /\ sent.started <= 1
    /\ sent.started = 1 <=> notifier.upload_session_started

\* every thread has called notify_upload_start on an enabled Notifier and
\* returned, and one notification was started
C31_Witness ==
    /\ CallersIdle
    /\ \A t \in NotifierThreads : callers[t].api = "notify_upload_start"
    /\ ~Disabled
    /\ sent.calls >= MaxNotifiers
    /\ sent.started = 1

\* the notify_upload_success calls that are past the enabled test and have
\* not yet stored their increment
Uncounted ==
    Cardinality({ t \in NotifierThreads :
                    /\ callers[t].api = "notify_upload_success"
                    /\ callers[t].pc \in {"lock", "load_count", "store_count"} })

\* C40: the counts of the batches announced plus the pending upload_count
\* equal the number of notify_upload_success calls (those that have not yet
\* stored their increment aside); each announcement takes the whole pending
\* count, which is positive, and resets it to 0; and an announcement made
\* from notify_upload_success comes at least batch_timeout after the one
\* before it.
C40_CountsConserved ==
    /\ [](Total(sent.batches, DOMAIN sent.batches) + notifier.upload_count
            + Uncounted = sent.successes)
    /\ [][sent'.batches # sent.batches
          => /\ notifier.upload_count > 0
             /\ sent'.batches = Append(sent.batches, notifier.upload_count)
             /\ notifier'.upload_count = 0
             /\ \A t \in NotifierThreads :
                  (/\ callers[t].pc = "send"
                   /\ callers'[t].pc # "send"
                   /\ callers[t].api = "notify_upload_success"
                   /\ sent.last_batch_at # NoTime)
                  => wall - sent.last_batch_at >= notifier.batch_timeout]_vars

\* two uploads were announced in one batch by notify_upload_success, a
\* third was announced by force_notification, and nothing is pending
C40_Witness ==
    /\ CallersIdle
    /\ sent.successes = 3
    /\ sent.batches = <<2, 1>>
    /\ notifier.upload_count = 0
    /\ \E t \in NotifierThreads : callers[t].api = "force_notification"

====
